---- MODULE Spec2Model ----
(***************************************************************************)
(* The OrbitArea three-click editor: the state kept by the hook            *)
(* useOrbitAreaEditor, the handlers of the OrbitAreaEditor layer, and the  *)
(* components that wire them (OrbitAreaDemo, OrbitAreaEditorControls).     *)
(*                                                                         *)
(* React state and closures.  setEditorState(v) replaces the hook state;   *)
(* the handlers handleMapClick / handleMouseMove, the flag isEditing and   *)
(* the layer's props.editorState are all built from the value the state    *)
(* had at the last render.  The model keeps both: editorState (the value   *)
(* last set) and rendered (the value of the last render).  Render is the   *)
(* step that propagates the one to the other and runs the layer's          *)
(* updateState.                                                            *)
(*                                                                         *)
(* Angles are whole degrees, distances whole tenths of a metre (geolib's    *)
(* getDistance rounds to 1 m: what it returns is a multiple of 10),        *)
(* longitudes and latitudes whole millionths of a degree.                  *)
(* The bearings, distances and destination points of the map positions     *)
(* used are tabulated from geolib's formulas.                              *)
(***************************************************************************)
EXTENDS Integers, Sequences, FiniteSets, TLC

VARIABLES
  wiring,            \* which component mounts the editor (fixed at mount)
  editorState,       \* useOrbitAreaEditor: the value last given to setEditorState
  rendered,          \* the editorState of the last render (closures, props)
  currentAlignment,  \* OrbitAreaEditor._currentAlignment
  orbitAreas,        \* the OrbitAreas delivered to a completion callback
  ev,                \* history: the handler that ran last, and its coordinate
  scen,              \* history: progress through start, click, click, hover, click
  clicks,            \* history: successive canvas clicks (OrbitAreaEditorControls)
  widthHover,        \* history: the position of the last hover handled in
                     \* WIDTH_SELECTION since the session began
  preview,           \* OrbitAreaEditor: what the last renderLayers passed to
                     \* generateOrbitAreaPolygon for the preview polygon
  calc               \* the last call of a function of the geometry engine:
                     \* its name, its arguments and what it returned

vars == <<wiring, editorState, rendered, currentAlignment, orbitAreas, ev, scen,
          clicks, widthHover, preview, calc>>

----------------------------------------------------------------------------
(* Bounds *)

MaxAreas == 1

----------------------------------------------------------------------------
(* src/src/App.tsx (types): enums and optional values *)

INACTIVE == "INACTIVE"
FIRST_POINT == "FIRST_POINT"
SECOND_POINT == "SECOND_POINT"
WIDTH_SELECTION == "WIDTH_SELECTION"
EditorMode == {INACTIVE, FIRST_POINT, SECOND_POINT, WIDTH_SELECTION}

CENTRE == "OrbitAreaAlignmentEnum_CENTRE"
LEFT == "OrbitAreaAlignmentEnum_LEFT"
RIGHT == "OrbitAreaAlignmentEnum_RIGHT"
OrbitAreaAlignmentEnum == {CENTRE, LEFT, RIGHT}

\* JavaScript undefined (an optional field that is not set)
undefined == [undefined |-> TRUE]

\* PickingInfo.coordinate when nothing was picked
null == <<>>

\* Map positions used as inputs, as (longitude, latitude) in millionths of a
\* degree: 0 E 0 N and 20 E 10 N
Coordinates == {<<0, 0>>, <<20000000, 10000000>>}

\* what info.coordinate can be
PickingCoordinates == Coordinates \cup {null}

Point(lon, lat) == [longitude |-> lon, latitude |-> lat]

Points == {Point(c[1], c[2]) : c \in Coordinates}

----------------------------------------------------------------------------
(* geo-utils: distance, bearing, normalizeAngle *)

\* geolib getDistance (accuracy 1 m) for the positions of Coordinates
DistanceTable ==
  LET A == Point(0, 0)  R == Point(20000000, 10000000) IN
    (<<A, A>> :> 0) @@ (<<A, R>> :> 24789450) @@
    (<<R, A>> :> 24789450) @@ (<<R, R>> :> 0)

\* geolib getGreatCircleBearing, to the nearest degree, for the positions of
\* Coordinates: 62.73 and 244.49 degrees; coincident points give
\* atan2(0, 0) = 0
BearingTable ==
  LET A == Point(0, 0)  R == Point(20000000, 10000000) IN
    (<<A, A>> :> 0) @@ (<<A, R>> :> 63) @@
    (<<R, A>> :> 244) @@ (<<R, R>> :> 0)

\* geolib getDistance and getGreatCircleBearing (to the nearest degree) from
\* a position to a position that calculateDestinationPoint returned from it:
\* <<longitude, latitude, longitude reached, latitude reached, distance, bearing>>
MeasuredEntries ==
  { <<-899322, 0, -1798644, 0, 1001120, 270>>, <<-899322, 0, -1787573, -140679, 1001120, 261>>,
    <<-899322, 0, -1787573, 140679, 1001120, 279>>, <<-899322, 0, -1754634, -277895, 1001120, 252>>,
    <<-899322, 0, -1754634, 277895, 1001120, 288>>, <<-899322, 0, -1700637, -408270, 1001120, 243>>,
    <<-899322, 0, -1700637, 408270, 1001120, 297>>, <<-899322, 0, -1626909, -528594, 1001120, 234>>,
    <<-899322, 0, -1626909, 528594, 1001120, 306>>, <<-899322, 0, -1535265, -635903, 1001120, 225>>,
    <<-899322, 0, -1535265, 635903, 1001120, 315>>, <<-899322, 0, -1427958, -727556, 1001120, 216>>,
    <<-899322, 0, -1427958, 727556, 1001120, 324>>, <<-899322, 0, -1307632, -801295, 1001120, 207>>,
    <<-899322, 0, -1307632, 801295, 1001120, 333>>, <<-899322, 0, -1177248, -855302, 1001120, 198>>,
    <<-899322, 0, -1177248, 855302, 1001120, 342>>, <<-899322, 0, -1040018, -888249, 1001120, 189>>,
    <<-899322, 0, -1040018, 888249, 1001120, 351>>, <<-899322, 0, -899322, -899322, 1001120, 180>>,
    <<-899322, 0, -899322, 899322, 1001120, 0>>, <<-899322, 0, -758626, -888249, 1001120, 171>>,
    <<-899322, 0, -758626, 888249, 1001120, 9>>, <<-899322, 0, -621396, -855302, 1001120, 162>>,
    <<-899322, 0, -621396, 855302, 1001120, 18>>, <<-899322, 0, -491012, -801295, 1001120, 153>>,
    <<-899322, 0, -491012, 801295, 1001120, 27>>, <<-899322, 0, -370686, -727556, 1001120, 144>>,
    <<-899322, 0, -370686, 727556, 1001120, 36>>, <<-899322, 0, -263379, -635903, 1001120, 135>>,
    <<-899322, 0, -263379, 635903, 1001120, 45>>, <<-899322, 0, -171735, -528594, 1001120, 126>>,
    <<-899322, 0, -171735, 528594, 1001120, 54>>, <<-899322, 0, -98007, -408270, 1001120, 117>>,
    <<-899322, 0, -98007, 408270, 1001120, 63>>, <<-899322, 0, -44010, -277895, 1001120, 108>>,
    <<-899322, 0, -44010, 277895, 1001120, 72>>, <<-899322, 0, -11071, -140679, 1001120, 99>>,
    <<-899322, 0, -11071, 140679, 1001120, 81>>, <<-899322, 0, 0, 0, 1001120, 90>>,
    <<-899, 0, -1798, 0, 1000, 270>>, <<-899, 0, -1787, -141, 1000, 261>>,
    <<-899, 0, -1787, 141, 1000, 279>>, <<-899, 0, -1754, -278, 1000, 252>>,
    <<-899, 0, -1754, 278, 1000, 288>>, <<-899, 0, -1700, -408, 1000, 243>>,
    <<-899, 0, -1700, 408, 1000, 297>>, <<-899, 0, -1627, -529, 1000, 234>>,
    <<-899, 0, -1627, 529, 1000, 306>>, <<-899, 0, -1535, -636, 1000, 225>>,
    <<-899, 0, -1535, 636, 1000, 315>>, <<-899, 0, -1428, -728, 1000, 216>>,
    <<-899, 0, -1428, 728, 1000, 324>>, <<-899, 0, -1307, -801, 1000, 207>>,
    <<-899, 0, -1307, 801, 1000, 333>>, <<-899, 0, -1177, -855, 1000, 198>>,
    <<-899, 0, -1177, 855, 1000, 342>>, <<-899, 0, -1040, -888, 1000, 189>>,
    <<-899, 0, -1040, 888, 1000, 351>>, <<-899, 0, -899, -899, 1000, 180>>,
    <<-899, 0, -899, 899, 1000, 0>>, <<-899, 0, -758, -888, 1000, 171>>,
    <<-899, 0, -758, 888, 1000, 9>>, <<-899, 0, -621, -855, 1000, 162>>,
    <<-899, 0, -621, 855, 1000, 18>>, <<-899, 0, -491, -801, 1000, 153>>,
    <<-899, 0, -491, 801, 1000, 27>>, <<-899, 0, -370, -728, 1000, 144>>,
    <<-899, 0, -370, 728, 1000, 36>>, <<-899, 0, -263, -636, 1000, 135>>,
    <<-899, 0, -263, 636, 1000, 45>>, <<-899, 0, -171, -529, 1000, 126>>,
    <<-899, 0, -171, 529, 1000, 54>>, <<-899, 0, -98, -408, 1000, 117>>,
    <<-899, 0, -98, 408, 1000, 63>>, <<-899, 0, -44, -278, 1000, 108>>,
    <<-899, 0, -44, 278, 1000, 72>>, <<-899, 0, -11, -141, 1000, 99>>,
    <<-899, 0, -11, 141, 1000, 81>>, <<-899, 0, 0, 0, 1000, 90>>,
    <<0, 0, -180000000, -44830401, 150470110, 180>>, <<0, 0, -180000000, 44830401, 150470110, 0>>,
    <<0, 0, -171160673, -44133357, 150470110, 189>>, <<0, 0, -171160673, 44133357, 150470110, 351>>,
    <<0, 0, -162923410, -42106048, 150470110, 198>>, <<0, 0, -162923410, 42106048, 150470110, 342>>,
    <<0, 0, -155709832, -38915168, 150470110, 207>>, <<0, 0, -155709832, 38915168, 150470110, 333>>,
    <<0, 0, -149701583, -34775722, 150470110, 216>>, <<0, 0, -149701583, 34775722, 150470110, 324>>,
    <<0, 0, -144895352, -29901986, 150470110, 225>>, <<0, 0, -144895352, 29901986, 150470110, 315>>,
    <<0, 0, -141192310, -24481213, 150470110, 234>>, <<0, 0, -141192310, 24481213, 150470110, 306>>,
    <<0, 0, -138467172, -18667045, 150470110, 243>>, <<0, 0, -138467172, 18667045, 150470110, 297>>,
    <<0, 0, -136606359, -12583387, 150470110, 252>>, <<0, 0, -136606359, 12583387, 150470110, 288>>,
    <<0, 0, -135524462, -6331915, 150470110, 261>>, <<0, 0, -135524462, 6331915, 150470110, 279>>,
    <<0, 0, -135169599, 0, 150470110, 270>>, <<0, 0, -899322, 0, 1001120, 270>>,
    <<0, 0, -888251, -140679, 1001120, 261>>, <<0, 0, -888251, 140679, 1001120, 279>>,
    <<0, 0, -855312, -277895, 1001120, 252>>, <<0, 0, -855312, 277895, 1001120, 288>>,
    <<0, 0, -801315, -408270, 1001120, 243>>, <<0, 0, -801315, 408270, 1001120, 297>>,
    <<0, 0, -727587, -528594, 1001120, 234>>, <<0, 0, -727587, 528594, 1001120, 306>>,
    <<0, 0, -635943, -635903, 1001120, 225>>, <<0, 0, -635943, 635903, 1001120, 315>>,
    <<0, 0, -528636, -727556, 1001120, 216>>, <<0, 0, -528636, 727556, 1001120, 324>>,
    <<0, 0, -408310, -801295, 1001120, 207>>, <<0, 0, -408310, 801295, 1001120, 333>>,
    <<0, 0, -277926, -855302, 1001120, 198>>, <<0, 0, -277926, 855302, 1001120, 342>>,
    <<0, 0, -140696, -888249, 1001120, 189>>, <<0, 0, -140696, 888249, 1001120, 351>>,
    <<0, 0, -899, 0, 1000, 270>>, <<0, 0, -888, -141, 1000, 261>>,
    <<0, 0, -888, 141, 1000, 279>>, <<0, 0, -855, -278, 1000, 252>>,
    <<0, 0, -855, 278, 1000, 288>>, <<0, 0, -801, -408, 1000, 243>>,
    <<0, 0, -801, 408, 1000, 297>>, <<0, 0, -728, -529, 1000, 234>>,
    <<0, 0, -728, 529, 1000, 306>>, <<0, 0, -636, -636, 1000, 225>>,
    <<0, 0, -636, 636, 1000, 315>>, <<0, 0, -529, -728, 1000, 216>>,
    <<0, 0, -529, 728, 1000, 324>>, <<0, 0, -453, 0, 500, 270>>,
    <<0, 0, -448, -71, 500, 261>>, <<0, 0, -448, 71, 500, 279>>,
    <<0, 0, -431, -140, 500, 252>>, <<0, 0, -431, 140, 500, 288>>,
    <<0, 0, -408, -801, 1000, 207>>, <<0, 0, -408, 801, 1000, 333>>,
    <<0, 0, -404, -206, 500, 243>>, <<0, 0, -404, 206, 500, 297>>,
    <<0, 0, -367, -266, 500, 234>>, <<0, 0, -367, 266, 500, 306>>,
    <<0, 0, -321, -321, 510, 225>>, <<0, 0, -321, 321, 510, 315>>,
    <<0, 0, -278, -855, 1000, 198>>, <<0, 0, -278, 855, 1000, 342>>,
    <<0, 0, -266, -367, 500, 216>>, <<0, 0, -266, 367, 500, 324>>,
    <<0, 0, -206, -404, 500, 207>>, <<0, 0, -206, 404, 500, 333>>,
    <<0, 0, -141, -888, 1000, 189>>, <<0, 0, -141, 888, 1000, 351>>,
    <<0, 0, -140, -431, 500, 198>>, <<0, 0, -140, 431, 500, 342>>,
    <<0, 0, -94, 0, 100, 270>>, <<0, 0, -93, -15, 100, 261>>,
    <<0, 0, -93, 15, 100, 279>>, <<0, 0, -90, -29, 110, 252>>,
    <<0, 0, -90, 29, 110, 288>>, <<0, 0, -84, -43, 110, 243>>,
    <<0, 0, -84, 43, 110, 297>>, <<0, 0, -76, -56, 110, 234>>,
    <<0, 0, -76, 56, 110, 306>>, <<0, 0, -71, -448, 500, 189>>,
    <<0, 0, -71, 448, 500, 351>>, <<0, 0, -67, -67, 110, 225>>,
    <<0, 0, -67, 67, 110, 315>>, <<0, 0, -56, -76, 110, 216>>,
    <<0, 0, -56, 76, 110, 324>>, <<0, 0, -43, -84, 110, 207>>,
    <<0, 0, -43, 84, 110, 333>>, <<0, 0, -29, -90, 110, 198>>,
    <<0, 0, -29, 90, 110, 342>>, <<0, 0, -15, -93, 100, 189>>,
    <<0, 0, -15, 93, 100, 351>>, <<0, 0, 0, -899322, 1001120, 180>>,
    <<0, 0, 0, -899, 1000, 180>>, <<0, 0, 0, -453, 500, 180>>,
    <<0, 0, 0, -94, 100, 180>>, <<0, 0, 0, 94, 100, 0>>,
    <<0, 0, 0, 453, 500, 0>>, <<0, 0, 0, 899, 1000, 0>>,
    <<0, 0, 0, 899322, 1001120, 0>>, <<0, 0, 15, -93, 100, 171>>,
    <<0, 0, 15, 93, 100, 9>>, <<0, 0, 29, -90, 110, 162>>,
    <<0, 0, 29, 90, 110, 18>>, <<0, 0, 43, -84, 110, 153>>,
    <<0, 0, 43, 84, 110, 27>>, <<0, 0, 56, -76, 110, 144>>,
    <<0, 0, 56, 76, 110, 36>>, <<0, 0, 67, -67, 110, 135>>,
    <<0, 0, 67, 67, 110, 45>>, <<0, 0, 71, -448, 500, 171>>,
    <<0, 0, 71, 448, 500, 9>>, <<0, 0, 76, -56, 110, 126>>,
    <<0, 0, 76, 56, 110, 54>>, <<0, 0, 84, -43, 110, 117>>,
    <<0, 0, 84, 43, 110, 63>>, <<0, 0, 90, -29, 110, 108>>,
    <<0, 0, 90, 29, 110, 72>>, <<0, 0, 93, -15, 100, 99>>,
    <<0, 0, 93, 15, 100, 81>>, <<0, 0, 94, 0, 100, 90>>,
    <<0, 0, 140, -431, 500, 162>>, <<0, 0, 140, 431, 500, 18>>,
    <<0, 0, 141, -888, 1000, 171>>, <<0, 0, 141, 888, 1000, 9>>,
    <<0, 0, 206, -404, 500, 153>>, <<0, 0, 206, 404, 500, 27>>,
    <<0, 0, 266, -367, 500, 144>>, <<0, 0, 266, 367, 500, 36>>,
    <<0, 0, 278, -855, 1000, 162>>, <<0, 0, 278, 855, 1000, 18>>,
    <<0, 0, 321, -321, 510, 135>>, <<0, 0, 321, 321, 510, 45>>,
    <<0, 0, 367, -266, 500, 126>>, <<0, 0, 367, 266, 500, 54>>,
    <<0, 0, 404, -206, 500, 117>>, <<0, 0, 404, 206, 500, 63>>,
    <<0, 0, 408, -801, 1000, 153>>, <<0, 0, 408, 801, 1000, 27>>,
    <<0, 0, 431, -140, 500, 108>>, <<0, 0, 431, 140, 500, 72>>,
    <<0, 0, 448, -71, 500, 99>>, <<0, 0, 448, 71, 500, 81>>,
    <<0, 0, 453, 0, 500, 90>>, <<0, 0, 529, -728, 1000, 144>>,
    <<0, 0, 529, 728, 1000, 36>>, <<0, 0, 636, -636, 1000, 135>>,
    <<0, 0, 636, 636, 1000, 45>>, <<0, 0, 728, -529, 1000, 126>>,
    <<0, 0, 728, 529, 1000, 54>>, <<0, 0, 801, -408, 1000, 117>>,
    <<0, 0, 801, 408, 1000, 63>>, <<0, 0, 855, -278, 1000, 108>>,
    <<0, 0, 855, 278, 1000, 72>>, <<0, 0, 888, -141, 1000, 99>>,
    <<0, 0, 888, 141, 1000, 81>>, <<0, 0, 899, 0, 1000, 90>>,
    <<0, 0, 140696, -888249, 1001120, 171>>, <<0, 0, 140696, 888249, 1001120, 9>>,
    <<0, 0, 277926, -855302, 1001120, 162>>, <<0, 0, 277926, 855302, 1001120, 18>>,
    <<0, 0, 408310, -801295, 1001120, 153>>, <<0, 0, 408310, 801295, 1001120, 27>>,
    <<0, 0, 528636, -727556, 1001120, 144>>, <<0, 0, 528636, 727556, 1001120, 36>>,
    <<0, 0, 635943, -635903, 1001120, 135>>, <<0, 0, 635943, 635903, 1001120, 45>>,
    <<0, 0, 727587, -528594, 1001120, 126>>, <<0, 0, 727587, 528594, 1001120, 54>>,
    <<0, 0, 801315, -408270, 1001120, 117>>, <<0, 0, 801315, 408270, 1001120, 63>>,
    <<0, 0, 855312, -277895, 1001120, 108>>, <<0, 0, 855312, 277895, 1001120, 72>>,
    <<0, 0, 888251, -140679, 1001120, 99>>, <<0, 0, 888251, 140679, 1001120, 81>>,
    <<0, 0, 899322, 0, 1001120, 90>>, <<0, 0, 135169599, 0, 150470110, 90>>,
    <<0, 0, 135524462, -6331915, 150470110, 99>>, <<0, 0, 135524462, 6331915, 150470110, 81>>,
    <<0, 0, 136606359, -12583387, 150470110, 108>>, <<0, 0, 136606359, 12583387, 150470110, 72>>,
    <<0, 0, 138467172, -18667045, 150470110, 117>>, <<0, 0, 138467172, 18667045, 150470110, 63>>,
    <<0, 0, 141192310, -24481213, 150470110, 126>>, <<0, 0, 141192310, 24481213, 150470110, 54>>,
    <<0, 0, 144895352, -29901986, 150470110, 135>>, <<0, 0, 144895352, 29901986, 150470110, 45>>,
    <<0, 0, 149701583, -34775722, 150470110, 144>>, <<0, 0, 149701583, 34775722, 150470110, 36>>,
    <<0, 0, 155709832, -38915168, 150470110, 153>>, <<0, 0, 155709832, 38915168, 150470110, 27>>,
    <<0, 0, 162923410, -42106048, 150470110, 162>>, <<0, 0, 162923410, 42106048, 150470110, 18>>,
    <<0, 0, 171160673, -44133357, 150470110, 171>>, <<0, 0, 171160673, 44133357, 150470110, 9>>,
    <<899, 0, 0, 0, 1000, 270>>, <<899, 0, 11, -141, 1000, 261>>,
    <<899, 0, 11, 141, 1000, 279>>, <<899, 0, 44, -278, 1000, 252>>,
    <<899, 0, 44, 278, 1000, 288>>, <<899, 0, 98, -408, 1000, 243>>,
    <<899, 0, 98, 408, 1000, 297>>, <<899, 0, 171, -529, 1000, 234>>,
    <<899, 0, 171, 529, 1000, 306>>, <<899, 0, 263, -636, 1000, 225>>,
    <<899, 0, 263, 636, 1000, 315>>, <<899, 0, 370, -728, 1000, 216>>,
    <<899, 0, 370, 728, 1000, 324>>, <<899, 0, 491, -801, 1000, 207>>,
    <<899, 0, 491, 801, 1000, 333>>, <<899, 0, 621, -855, 1000, 198>>,
    <<899, 0, 621, 855, 1000, 342>>, <<899, 0, 758, -888, 1000, 189>>,
    <<899, 0, 758, 888, 1000, 351>>, <<899, 0, 899, -899, 1000, 180>>,
    <<899, 0, 899, 899, 1000, 0>>, <<899, 0, 1040, -888, 1000, 171>>,
    <<899, 0, 1040, 888, 1000, 9>>, <<899, 0, 1177, -855, 1000, 162>>,
    <<899, 0, 1177, 855, 1000, 18>>, <<899, 0, 1307, -801, 1000, 153>>,
    <<899, 0, 1307, 801, 1000, 27>>, <<899, 0, 1428, -728, 1000, 144>>,
    <<899, 0, 1428, 728, 1000, 36>>, <<899, 0, 1535, -636, 1000, 135>>,
    <<899, 0, 1535, 636, 1000, 45>>, <<899, 0, 1627, -529, 1000, 126>>,
    <<899, 0, 1627, 529, 1000, 54>>, <<899, 0, 1700, -408, 1000, 117>>,
    <<899, 0, 1700, 408, 1000, 63>>, <<899, 0, 1754, -278, 1000, 108>>,
    <<899, 0, 1754, 278, 1000, 72>>, <<899, 0, 1787, -141, 1000, 99>>,
    <<899, 0, 1787, 141, 1000, 81>>, <<899, 0, 1798, 0, 1000, 90>>,
    <<899322, 0, 0, 0, 1001120, 270>>, <<899322, 0, 11071, -140679, 1001120, 261>>,
    <<899322, 0, 11071, 140679, 1001120, 279>>, <<899322, 0, 44010, -277895, 1001120, 252>>,
    <<899322, 0, 44010, 277895, 1001120, 288>>, <<899322, 0, 98007, -408270, 1001120, 243>>,
    <<899322, 0, 98007, 408270, 1001120, 297>>, <<899322, 0, 171735, -528594, 1001120, 234>>,
    <<899322, 0, 171735, 528594, 1001120, 306>>, <<899322, 0, 263379, -635903, 1001120, 225>>,
    <<899322, 0, 263379, 635903, 1001120, 315>>, <<899322, 0, 370686, -727556, 1001120, 216>>,
    <<899322, 0, 370686, 727556, 1001120, 324>>, <<899322, 0, 491012, -801295, 1001120, 207>>,
    <<899322, 0, 491012, 801295, 1001120, 333>>, <<899322, 0, 621396, -855302, 1001120, 198>>,
    <<899322, 0, 621396, 855302, 1001120, 342>>, <<899322, 0, 758626, -888249, 1001120, 189>>,
    <<899322, 0, 758626, 888249, 1001120, 351>>, <<899322, 0, 899322, -899322, 1001120, 180>>,
    <<899322, 0, 899322, 899322, 1001120, 0>>, <<899322, 0, 1040018, -888249, 1001120, 171>>,
    <<899322, 0, 1040018, 888249, 1001120, 9>>, <<899322, 0, 1177248, -855302, 1001120, 162>>,
    <<899322, 0, 1177248, 855302, 1001120, 18>>, <<899322, 0, 1307632, -801295, 1001120, 153>>,
    <<899322, 0, 1307632, 801295, 1001120, 27>>, <<899322, 0, 1427958, -727556, 1001120, 144>>,
    <<899322, 0, 1427958, 727556, 1001120, 36>>, <<899322, 0, 1535265, -635903, 1001120, 135>>,
    <<899322, 0, 1535265, 635903, 1001120, 45>>, <<899322, 0, 1626909, -528594, 1001120, 126>>,
    <<899322, 0, 1626909, 528594, 1001120, 54>>, <<899322, 0, 1700637, -408270, 1001120, 117>>,
    <<899322, 0, 1700637, 408270, 1001120, 63>>, <<899322, 0, 1754634, -277895, 1001120, 108>>,
    <<899322, 0, 1754634, 277895, 1001120, 72>>, <<899322, 0, 1787573, -140679, 1001120, 99>>,
    <<899322, 0, 1787573, 140679, 1001120, 81>>, <<899322, 0, 1798644, 0, 1001120, 90>>,
    <<19086807, 9998756, 18173618, 9997512, 1001120, 270>>, <<19086807, 9998756, 18184468, 10138221, 1001120, 279>>,
    <<19086807, 9998756, 18185249, 9856863, 1001120, 261>>, <<19086807, 9998756, 18217562, 10275525, 1001120, 288>>,
    <<19086807, 9998756, 18219047, 9719736, 1001120, 252>>, <<19086807, 9998756, 18272112, 10406037, 1001120, 297>>,
    <<19086807, 9998756, 18274156, 9589499, 1001120, 243>>, <<19086807, 9998756, 18346796, 10526534, 1001120, 306>>,
    <<19086807, 9998756, 18349199, 9469349, 1001120, 234>>, <<19086807, 9998756, 18439791, 10634036, 1001120, 315>>,
    <<19086807, 9998756, 18442318, 9362232, 1001120, 225>>, <<19086807, 9998756, 18548814, 10725881, 1001120, 324>>,
    <<19086807, 9998756, 18551217, 9270771, 1001120, 216>>, <<19086807, 9998756, 18671175, 10799794, 1001120, 333>>,
    <<19086807, 9998756, 18673220, 9197205, 1001120, 207>>, <<19086807, 9998756, 18803850, 10853939, 1001120, 342>>,
    <<19086807, 9998756, 18805335, 9143335, 1001120, 198>>, <<19086807, 9998756, 18943549, 10886974, 1001120, 351>>,
    <<19086807, 9998756, 18944330, 9110477, 1001120, 189>>, <<19086807, 9998756, 19086807, 9099434, 1001120, 180>>,
    <<19086807, 9998756, 19086807, 10898078, 1001120, 0>>, <<19086807, 9998756, 19229284, 9110477, 1001120, 171>>,
    <<19086807, 9998756, 19230065, 10886974, 1001120, 9>>, <<19086807, 9998756, 19368279, 9143335, 1001120, 162>>,
    <<19086807, 9998756, 19369764, 10853939, 1001120, 18>>, <<19086807, 9998756, 19500394, 9197205, 1001120, 153>>,
    <<19086807, 9998756, 19502439, 10799794, 1001120, 27>>, <<19086807, 9998756, 19622397, 9270771, 1001120, 144>>,
    <<19086807, 9998756, 19624800, 10725881, 1001120, 36>>, <<19086807, 9998756, 19731296, 9362232, 1001120, 135>>,
    <<19086807, 9998756, 19733823, 10634036, 1001120, 45>>, <<19086807, 9998756, 19824415, 9469349, 1001120, 126>>,
    <<19086807, 9998756, 19826818, 10526534, 1001120, 54>>, <<19086807, 9998756, 19899458, 9589499, 1001120, 117>>,
    <<19086807, 9998756, 19901502, 10406037, 1001120, 63>>, <<19086807, 9998756, 19954567, 9719736, 1001120, 108>>,
    <<19086807, 9998756, 19956052, 10275525, 1001120, 72>>, <<19086807, 9998756, 19988365, 9856863, 1001120, 99>>,
    <<19086807, 9998756, 19989146, 10138221, 1001120, 81>>, <<19086807, 9998756, 19999996, 9997512, 1001120, 90>>,
    <<19999087, 10000000, 19998174, 10000000, 1000, 270>>, <<19999087, 10000000, 19998185, 9999859, 1000, 261>>,
    <<19999087, 10000000, 19998185, 10000141, 1000, 279>>, <<19999087, 10000000, 19998218, 10000278, 1000, 288>>,
    <<19999087, 10000000, 19998219, 9999722, 1000, 252>>, <<19999087, 10000000, 19998273, 9999592, 1000, 243>>,
    <<19999087, 10000000, 19998273, 10000408, 1000, 297>>, <<19999087, 10000000, 19998348, 9999471, 1000, 234>>,
    <<19999087, 10000000, 19998348, 10000529, 1000, 306>>, <<19999087, 10000000, 19998441, 9999364, 1000, 225>>,
    <<19999087, 10000000, 19998441, 10000636, 1000, 315>>, <<19999087, 10000000, 19998550, 9999272, 1000, 216>>,
    <<19999087, 10000000, 19998550, 10000728, 1000, 324>>, <<19999087, 10000000, 19998672, 9999199, 1000, 207>>,
    <<19999087, 10000000, 19998672, 10000801, 1000, 333>>, <<19999087, 10000000, 19998805, 9999145, 1000, 198>>,
    <<19999087, 10000000, 19998805, 10000855, 1000, 342>>, <<19999087, 10000000, 19998944, 9999112, 1000, 189>>,
    <<19999087, 10000000, 19998944, 10000888, 1000, 351>>, <<19999087, 10000000, 19999087, 9999101, 1000, 180>>,
    <<19999087, 10000000, 19999087, 10000899, 1000, 0>>, <<19999087, 10000000, 19999230, 9999112, 1000, 171>>,
    <<19999087, 10000000, 19999230, 10000888, 1000, 9>>, <<19999087, 10000000, 19999369, 9999145, 1000, 162>>,
    <<19999087, 10000000, 19999369, 10000855, 1000, 18>>, <<19999087, 10000000, 19999502, 9999199, 1000, 153>>,
    <<19999087, 10000000, 19999502, 10000801, 1000, 27>>, <<19999087, 10000000, 19999624, 9999272, 1000, 144>>,
    <<19999087, 10000000, 19999624, 10000728, 1000, 36>>, <<19999087, 10000000, 19999733, 9999364, 1000, 135>>,
    <<19999087, 10000000, 19999733, 10000636, 1000, 45>>, <<19999087, 10000000, 19999826, 9999471, 1000, 126>>,
    <<19999087, 10000000, 19999826, 10000529, 1000, 54>>, <<19999087, 10000000, 19999901, 9999592, 1000, 117>>,
    <<19999087, 10000000, 19999901, 10000408, 1000, 63>>, <<19999087, 10000000, 19999955, 9999722, 1000, 108>>,
    <<19999087, 10000000, 19999956, 10000278, 1000, 72>>, <<19999087, 10000000, 19999989, 9999859, 1000, 99>>,
    <<19999087, 10000000, 19999989, 10000141, 1000, 81>>, <<19999087, 10000000, 20000000, 10000000, 1000, 90>>,
    <<20000000, 10000000, -174968550, 32491042, 150470110, 18>>, <<20000000, 10000000, -170811757, -53988856, 150470110, 171>>,
    <<20000000, 10000000, -167666277, 34235880, 150470110, 9>>, <<20000000, 10000000, -160000000, -54830401, 150470110, 180>>,
    <<20000000, 10000000, -160000000, 34830401, 150470110, 0>>, <<20000000, 10000000, -152333723, 34235880, 150470110, 351>>,
    <<20000000, 10000000, -149188243, -53988856, 150470110, 189>>, <<20000000, 10000000, -145031450, 32491042, 150470110, 342>>,
    <<20000000, 10000000, -139477293, -51579317, 150470110, 198>>, <<20000000, 10000000, -138378221, 29701079, 150470110, 333>>,
    <<20000000, 10000000, -132541812, 26011383, 150470110, 324>>, <<20000000, 10000000, -131493881, -47882965, 150470110, 207>>,
    <<20000000, 10000000, -127581869, 21579598, 150470110, 315>>, <<20000000, 10000000, -125341063, -43223903, 150470110, 216>>,
    <<20000000, 10000000, -123484944, 16555772, 150470110, 306>>, <<20000000, 10000000, -120828106, -37886184, 150470110, 225>>,
    <<20000000, 10000000, -120201861, 11072727, 150470110, 297>>, <<20000000, 10000000, -117683614, -32089950, 150470110, 234>>,
    <<20000000, 10000000, -117675922, 5244139, 150470110, 288>>, <<20000000, 10000000, -115860767, -833012, 150470110, 279>>,
    <<20000000, 10000000, -115661465, -25999053, 150470110, 243>>, <<20000000, 10000000, -114731038, -7073975, 150470110, 270>>,
    <<20000000, 10000000, -114573290, -19736880, 150470110, 252>>, <<20000000, 10000000, -114289480, -13400899, 150470110, 261>>,
    <<20000000, 10000000, 19086807, 9998756, 1001120, 270>>, <<20000000, 10000000, 19097658, 10139465, 1001120, 279>>,
    <<20000000, 10000000, 19098439, 9858107, 1001120, 261>>, <<20000000, 10000000, 19130752, 10276769, 1001120, 288>>,
    <<20000000, 10000000, 19132237, 9720980, 1001120, 252>>, <<20000000, 10000000, 19185301, 10407281, 1001120, 297>>,
    <<20000000, 10000000, 19187346, 9590743, 1001120, 243>>, <<20000000, 10000000, 19259986, 10527778, 1001120, 306>>,
    <<20000000, 10000000, 19262390, 9470593, 1001120, 234>>, <<20000000, 10000000, 19352982, 10635280, 1001120, 315>>,
    <<20000000, 10000000, 19355509, 9363476, 1001120, 225>>, <<20000000, 10000000, 19462004, 10727125, 1001120, 324>>,
    <<20000000, 10000000, 19464408, 9272015, 1001120, 216>>, <<20000000, 10000000, 19584366, 10801037, 1001120, 333>>,
    <<20000000, 10000000, 19586411, 9198449, 1001120, 207>>, <<20000000, 10000000, 19717041, 10855183, 1001120, 342>>,
    <<20000000, 10000000, 19718527, 9144579, 1001120, 198>>, <<20000000, 10000000, 19856742, 10888218, 1001120, 351>>,
    <<20000000, 10000000, 19857523, 9111721, 1001120, 189>>, <<20000000, 10000000, 19999087, 10000000, 1000, 270>>,
    <<20000000, 10000000, 19999098, 9999859, 1000, 261>>, <<20000000, 10000000, 19999098, 10000141, 1000, 279>>,
    <<20000000, 10000000, 19999131, 10000278, 1000, 288>>, <<20000000, 10000000, 19999132, 9999722, 1000, 252>>,
    <<20000000, 10000000, 19999186, 9999592, 1000, 243>>, <<20000000, 10000000, 19999186, 10000408, 1000, 297>>,
    <<20000000, 10000000, 19999261, 9999471, 1000, 234>>, <<20000000, 10000000, 19999261, 10000529, 1000, 306>>,
    <<20000000, 10000000, 19999354, 9999364, 1000, 225>>, <<20000000, 10000000, 19999354, 10000636, 1000, 315>>,
    <<20000000, 10000000, 19999463, 9999272, 1000, 216>>, <<20000000, 10000000, 19999463, 10000728, 1000, 324>>,
    <<20000000, 10000000, 19999540, 10000000, 500, 270>>, <<20000000, 10000000, 19999545, 9999929, 510, 261>>,
    <<20000000, 10000000, 19999545, 10000071, 510, 279>>, <<20000000, 10000000, 19999562, 9999860, 500, 252>>,
    <<20000000, 10000000, 19999562, 10000140, 500, 288>>, <<20000000, 10000000, 19999585, 9999199, 1000, 207>>,
    <<20000000, 10000000, 19999585, 10000801, 1000, 333>>, <<20000000, 10000000, 19999590, 9999794, 500, 243>>,
    <<20000000, 10000000, 19999590, 10000206, 500, 297>>, <<20000000, 10000000, 19999628, 9999734, 500, 234>>,
    <<20000000, 10000000, 19999628, 10000266, 500, 306>>, <<20000000, 10000000, 19999675, 9999679, 500, 225>>,
    <<20000000, 10000000, 19999675, 10000321, 500, 315>>, <<20000000, 10000000, 19999718, 9999145, 1000, 198>>,
    <<20000000, 10000000, 19999718, 10000855, 1000, 342>>, <<20000000, 10000000, 19999729, 9999633, 510, 216>>,
    <<20000000, 10000000, 19999729, 10000367, 510, 324>>, <<20000000, 10000000, 19999791, 9999596, 500, 207>>,
    <<20000000, 10000000, 19999791, 10000404, 500, 333>>, <<20000000, 10000000, 19999857, 9999112, 1000, 189>>,
    <<20000000, 10000000, 19999857, 10000888, 1000, 351>>, <<20000000, 10000000, 19999858, 9999569, 500, 198>>,
    <<20000000, 10000000, 19999858, 10000431, 500, 342>>, <<20000000, 10000000, 19999904, 10000000, 110, 270>>,
    <<20000000, 10000000, 19999905, 9999985, 110, 261>>, <<20000000, 10000000, 19999905, 10000015, 110, 279>>,
    <<20000000, 10000000, 19999909, 9999971, 100, 252>>, <<20000000, 10000000, 19999909, 10000029, 100, 288>>,
    <<20000000, 10000000, 19999915, 9999957, 100, 243>>, <<20000000, 10000000, 19999915, 10000043, 100, 297>>,
    <<20000000, 10000000, 19999922, 9999944, 110, 234>>, <<20000000, 10000000, 19999922, 10000056, 110, 306>>,
    <<20000000, 10000000, 19999928, 9999552, 500, 189>>, <<20000000, 10000000, 19999928, 10000448, 500, 351>>,
    <<20000000, 10000000, 19999932, 9999933, 110, 225>>, <<20000000, 10000000, 19999932, 10000067, 110, 315>>,
    <<20000000, 10000000, 19999944, 9999924, 100, 216>>, <<20000000, 10000000, 19999944, 10000076, 100, 324>>,
    <<20000000, 10000000, 19999956, 9999916, 110, 207>>, <<20000000, 10000000, 19999956, 10000084, 110, 333>>,
    <<20000000, 10000000, 19999970, 9999910, 110, 198>>, <<20000000, 10000000, 19999970, 10000090, 110, 342>>,
    <<20000000, 10000000, 19999985, 9999907, 100, 189>>, <<20000000, 10000000, 19999985, 10000093, 100, 351>>,
    <<20000000, 10000000, 20000000, 9100678, 1001120, 180>>, <<20000000, 10000000, 20000000, 9999101, 1000, 180>>,
    <<20000000, 10000000, 20000000, 9999547, 500, 180>>, <<20000000, 10000000, 20000000, 9999906, 100, 180>>,
    <<20000000, 10000000, 20000000, 10000094, 100, 0>>, <<20000000, 10000000, 20000000, 10000453, 500, 0>>,
    <<20000000, 10000000, 20000000, 10000899, 1000, 0>>, <<20000000, 10000000, 20000000, 10899322, 1001120, 0>>,
    <<20000000, 10000000, 20000015, 9999907, 100, 171>>, <<20000000, 10000000, 20000015, 10000093, 100, 9>>,
    <<20000000, 10000000, 20000030, 9999910, 110, 162>>, <<20000000, 10000000, 20000030, 10000090, 110, 18>>,
    <<20000000, 10000000, 20000044, 9999916, 110, 153>>, <<20000000, 10000000, 20000044, 10000084, 110, 27>>,
    <<20000000, 10000000, 20000056, 9999924, 100, 144>>, <<20000000, 10000000, 20000056, 10000076, 100, 36>>,
    <<20000000, 10000000, 20000068, 9999933, 110, 135>>, <<20000000, 10000000, 20000068, 10000067, 110, 45>>,
    <<20000000, 10000000, 20000072, 9999552, 500, 171>>, <<20000000, 10000000, 20000072, 10000448, 500, 9>>,
    <<20000000, 10000000, 20000078, 9999944, 110, 126>>, <<20000000, 10000000, 20000078, 10000056, 110, 54>>,
    <<20000000, 10000000, 20000085, 9999957, 100, 117>>, <<20000000, 10000000, 20000085, 10000043, 100, 63>>,
    <<20000000, 10000000, 20000091, 9999971, 100, 108>>, <<20000000, 10000000, 20000091, 10000029, 100, 72>>,
    <<20000000, 10000000, 20000095, 9999985, 110, 99>>, <<20000000, 10000000, 20000095, 10000015, 110, 81>>,
    <<20000000, 10000000, 20000096, 10000000, 110, 90>>, <<20000000, 10000000, 20000142, 9999569, 500, 162>>,
    <<20000000, 10000000, 20000142, 10000431, 500, 18>>, <<20000000, 10000000, 20000143, 9999112, 1000, 171>>,
    <<20000000, 10000000, 20000143, 10000888, 1000, 9>>, <<20000000, 10000000, 20000209, 9999596, 500, 153>>,
    <<20000000, 10000000, 20000209, 10000404, 500, 27>>, <<20000000, 10000000, 20000271, 9999633, 510, 144>>,
    <<20000000, 10000000, 20000271, 10000367, 510, 36>>, <<20000000, 10000000, 20000282, 9999145, 1000, 162>>,
    <<20000000, 10000000, 20000282, 10000855, 1000, 18>>, <<20000000, 10000000, 20000325, 9999679, 500, 135>>,
    <<20000000, 10000000, 20000325, 10000321, 500, 45>>, <<20000000, 10000000, 20000372, 9999734, 500, 126>>,
    <<20000000, 10000000, 20000372, 10000266, 500, 54>>, <<20000000, 10000000, 20000410, 9999794, 500, 117>>,
    <<20000000, 10000000, 20000410, 10000206, 500, 63>>, <<20000000, 10000000, 20000415, 9999199, 1000, 153>>,
    <<20000000, 10000000, 20000415, 10000801, 1000, 27>>, <<20000000, 10000000, 20000438, 9999860, 500, 108>>,
    <<20000000, 10000000, 20000438, 10000140, 500, 72>>, <<20000000, 10000000, 20000455, 9999929, 510, 99>>,
    <<20000000, 10000000, 20000455, 10000071, 510, 81>>, <<20000000, 10000000, 20000460, 10000000, 500, 90>>,
    <<20000000, 10000000, 20000537, 9999272, 1000, 144>>, <<20000000, 10000000, 20000537, 10000728, 1000, 36>>,
    <<20000000, 10000000, 20000646, 9999364, 1000, 135>>, <<20000000, 10000000, 20000646, 10000636, 1000, 45>>,
    <<20000000, 10000000, 20000739, 9999471, 1000, 126>>, <<20000000, 10000000, 20000739, 10000529, 1000, 54>>,
    <<20000000, 10000000, 20000814, 9999592, 1000, 117>>, <<20000000, 10000000, 20000814, 10000408, 1000, 63>>,
    <<20000000, 10000000, 20000868, 9999722, 1000, 108>>, <<20000000, 10000000, 20000869, 10000278, 1000, 72>>,
    <<20000000, 10000000, 20000902, 9999859, 1000, 99>>, <<20000000, 10000000, 20000902, 10000141, 1000, 81>>,
    <<20000000, 10000000, 20000913, 10000000, 1000, 90>>, <<20000000, 10000000, 20142477, 9111721, 1001120, 171>>,
    <<20000000, 10000000, 20143258, 10888218, 1001120, 9>>, <<20000000, 10000000, 20281473, 9144579, 1001120, 162>>,
    <<20000000, 10000000, 20282959, 10855183, 1001120, 18>>, <<20000000, 10000000, 20413589, 9198449, 1001120, 153>>,
    <<20000000, 10000000, 20415634, 10801037, 1001120, 27>>, <<20000000, 10000000, 20535592, 9272015, 1001120, 144>>,
    <<20000000, 10000000, 20537996, 10727125, 1001120, 36>>, <<20000000, 10000000, 20644491, 9363476, 1001120, 135>>,
    <<20000000, 10000000, 20647018, 10635280, 1001120, 45>>, <<20000000, 10000000, 20737610, 9470593, 1001120, 126>>,
    <<20000000, 10000000, 20740014, 10527778, 1001120, 54>>, <<20000000, 10000000, 20812654, 9590743, 1001120, 117>>,
    <<20000000, 10000000, 20814699, 10407281, 1001120, 63>>, <<20000000, 10000000, 20867763, 9720980, 1001120, 108>>,
    <<20000000, 10000000, 20869248, 10276769, 1001120, 72>>, <<20000000, 10000000, 20901561, 9858107, 1001120, 99>>,
    <<20000000, 10000000, 20902342, 10139465, 1001120, 81>>, <<20000000, 10000000, 20913193, 9998756, 1001120, 90>>,
    <<20000000, 10000000, 154289480, -13400899, 150470110, 99>>, <<20000000, 10000000, 154573290, -19736880, 150470110, 108>>,
    <<20000000, 10000000, 154731038, -7073975, 150470110, 90>>, <<20000000, 10000000, 155661465, -25999053, 150470110, 117>>,
    <<20000000, 10000000, 155860767, -833012, 150470110, 81>>, <<20000000, 10000000, 157675922, 5244139, 150470110, 72>>,
    <<20000000, 10000000, 157683614, -32089950, 150470110, 126>>, <<20000000, 10000000, 160201861, 11072727, 150470110, 63>>,
    <<20000000, 10000000, 160828106, -37886184, 150470110, 135>>, <<20000000, 10000000, 163484944, 16555772, 150470110, 54>>,
    <<20000000, 10000000, 165341063, -43223903, 150470110, 144>>, <<20000000, 10000000, 167581869, 21579598, 150470110, 45>>,
    <<20000000, 10000000, 171493881, -47882965, 150470110, 153>>, <<20000000, 10000000, 172541812, 26011383, 150470110, 36>>,
    <<20000000, 10000000, 178378221, 29701079, 150470110, 27>>, <<20000000, 10000000, 179477293, -51579317, 150470110, 162>>,
    <<20000913, 10000000, 20000000, 10000000, 1000, 270>>, <<20000913, 10000000, 20000011, 9999859, 1000, 261>>,
    <<20000913, 10000000, 20000011, 10000141, 1000, 279>>, <<20000913, 10000000, 20000044, 10000278, 1000, 288>>,
    <<20000913, 10000000, 20000045, 9999722, 1000, 252>>, <<20000913, 10000000, 20000099, 9999592, 1000, 243>>,
    <<20000913, 10000000, 20000099, 10000408, 1000, 297>>, <<20000913, 10000000, 20000174, 9999471, 1000, 234>>,
    <<20000913, 10000000, 20000174, 10000529, 1000, 306>>, <<20000913, 10000000, 20000267, 9999364, 1000, 225>>,
    <<20000913, 10000000, 20000267, 10000636, 1000, 315>>, <<20000913, 10000000, 20000376, 9999272, 1000, 216>>,
    <<20000913, 10000000, 20000376, 10000728, 1000, 324>>, <<20000913, 10000000, 20000498, 9999199, 1000, 207>>,
    <<20000913, 10000000, 20000498, 10000801, 1000, 333>>, <<20000913, 10000000, 20000631, 9999145, 1000, 198>>,
    <<20000913, 10000000, 20000631, 10000855, 1000, 342>>, <<20000913, 10000000, 20000770, 9999112, 1000, 189>>,
    <<20000913, 10000000, 20000770, 10000888, 1000, 351>>, <<20000913, 10000000, 20000913, 9999101, 1000, 180>>,
    <<20000913, 10000000, 20000913, 10000899, 1000, 0>>, <<20000913, 10000000, 20001056, 9999112, 1000, 171>>,
    <<20000913, 10000000, 20001056, 10000888, 1000, 9>>, <<20000913, 10000000, 20001195, 9999145, 1000, 162>>,
    <<20000913, 10000000, 20001195, 10000855, 1000, 18>>, <<20000913, 10000000, 20001328, 9999199, 1000, 153>>,
    <<20000913, 10000000, 20001328, 10000801, 1000, 27>>, <<20000913, 10000000, 20001450, 9999272, 1000, 144>>,
    <<20000913, 10000000, 20001450, 10000728, 1000, 36>>, <<20000913, 10000000, 20001559, 9999364, 1000, 135>>,
    <<20000913, 10000000, 20001559, 10000636, 1000, 45>>, <<20000913, 10000000, 20001652, 9999471, 1000, 126>>,
    <<20000913, 10000000, 20001652, 10000529, 1000, 54>>, <<20000913, 10000000, 20001727, 9999592, 1000, 117>>,
    <<20000913, 10000000, 20001727, 10000408, 1000, 63>>, <<20000913, 10000000, 20001781, 9999722, 1000, 108>>,
    <<20000913, 10000000, 20001782, 10000278, 1000, 72>>, <<20000913, 10000000, 20001815, 9999859, 1000, 99>>,
    <<20000913, 10000000, 20001815, 10000141, 1000, 81>>, <<20000913, 10000000, 20001826, 10000000, 1000, 90>>,
    <<20913193, 9998756, 20000004, 9997512, 1001120, 270>>, <<20913193, 9998756, 20010854, 10138221, 1001120, 279>>,
    <<20913193, 9998756, 20011635, 9856863, 1001120, 261>>, <<20913193, 9998756, 20043948, 10275525, 1001120, 288>>,
    <<20913193, 9998756, 20045433, 9719736, 1001120, 252>>, <<20913193, 9998756, 20098498, 10406037, 1001120, 297>>,
    <<20913193, 9998756, 20100542, 9589499, 1001120, 243>>, <<20913193, 9998756, 20173182, 10526534, 1001120, 306>>,
    <<20913193, 9998756, 20175585, 9469349, 1001120, 234>>, <<20913193, 9998756, 20266177, 10634036, 1001120, 315>>,
    <<20913193, 9998756, 20268704, 9362232, 1001120, 225>>, <<20913193, 9998756, 20375200, 10725881, 1001120, 324>>,
    <<20913193, 9998756, 20377603, 9270771, 1001120, 216>>, <<20913193, 9998756, 20497561, 10799794, 1001120, 333>>,
    <<20913193, 9998756, 20499606, 9197205, 1001120, 207>>, <<20913193, 9998756, 20630236, 10853939, 1001120, 342>>,
    <<20913193, 9998756, 20631721, 9143335, 1001120, 198>>, <<20913193, 9998756, 20769935, 10886974, 1001120, 351>>,
    <<20913193, 9998756, 20770716, 9110477, 1001120, 189>>, <<20913193, 9998756, 20913193, 9099434, 1001120, 180>>,
    <<20913193, 9998756, 20913193, 10898078, 1001120, 0>>, <<20913193, 9998756, 21055670, 9110477, 1001120, 171>>,
    <<20913193, 9998756, 21056451, 10886974, 1001120, 9>>, <<20913193, 9998756, 21194665, 9143335, 1001120, 162>>,
    <<20913193, 9998756, 21196150, 10853939, 1001120, 18>>, <<20913193, 9998756, 21326780, 9197205, 1001120, 153>>,
    <<20913193, 9998756, 21328825, 10799794, 1001120, 27>>, <<20913193, 9998756, 21448783, 9270771, 1001120, 144>>,
    <<20913193, 9998756, 21451186, 10725881, 1001120, 36>>, <<20913193, 9998756, 21557682, 9362232, 1001120, 135>>,
    <<20913193, 9998756, 21560209, 10634036, 1001120, 45>>, <<20913193, 9998756, 21650801, 9469349, 1001120, 126>>,
    <<20913193, 9998756, 21653204, 10526534, 1001120, 54>>, <<20913193, 9998756, 21725844, 9589499, 1001120, 117>>,
    <<20913193, 9998756, 21727888, 10406037, 1001120, 63>>, <<20913193, 9998756, 21780953, 9719736, 1001120, 108>>,
    <<20913193, 9998756, 21782438, 10275525, 1001120, 72>>, <<20913193, 9998756, 21814751, 9856863, 1001120, 99>>,
    <<20913193, 9998756, 21815532, 10138221, 1001120, 81>>, <<20913193, 9998756, 21826382, 9997512, 1001120, 90>> }

Measured(point1, point2) ==
  CHOOSE entry \in MeasuredEntries :
    /\ entry[1] = point1.longitude
    /\ entry[2] = point1.latitude
    /\ entry[3] = point2.longitude
    /\ entry[4] = point2.latitude

calculateDistance(point1, point2) ==
  IF <<point1, point2>> \in DOMAIN DistanceTable
    THEN DistanceTable[<<point1, point2>>]
    ELSE Measured(point1, point2)[5]

calculateBearing(point1, point2) ==
  IF <<point1, point2>> \in DOMAIN BearingTable
    THEN BearingTable[<<point1, point2>>]
    ELSE Measured(point1, point2)[6]

\* the JavaScript remainder a % n (n > 0): the sign of the dividend
Rem(a, n) == IF a >= 0 THEN a % n ELSE -((-a) % n)

\* a plausible slip: the remainder alone
normalizeAngle_remainderOnly(angle) == Rem(angle, 360)

normalizeAngle(angle) == Rem(Rem(angle, 360) + 360, 360)

\* geolib computeDestinationPoint (earth radius 6371000 m), to the nearest
\* millionth of a degree, for the calls generateOrbitAreaPolygon makes on the
\* positions of Coordinates with the widths of PolygonWidths (the whole
\* circle round each centre), and for the calls from the positions of
\* Coordinates along RoundTripBearings by RoundTripDistances:
\* <<longitude, latitude, bearing, distance, longitude reached, latitude reached>>
DestinationEntries ==
  { <<-899322, 0, 0, 1000000, -899322, 899322>>, <<-899322, 0, 9, 1000000, -758626, 888249>>,
    <<-899322, 0, 18, 1000000, -621396, 855302>>, <<-899322, 0, 27, 1000000, -491012, 801295>>,
    <<-899322, 0, 36, 1000000, -370686, 727556>>, <<-899322, 0, 45, 1000000, -263379, 635903>>,
    <<-899322, 0, 54, 1000000, -171735, 528594>>, <<-899322, 0, 63, 1000000, -98007, 408270>>,
    <<-899322, 0, 72, 1000000, -44010, 277895>>, <<-899322, 0, 81, 1000000, -11071, 140679>>,
    <<-899322, 0, 90, 1000000, 0, 0>>, <<-899322, 0, 99, 1000000, -11071, -140679>>,
    <<-899322, 0, 108, 1000000, -44010, -277895>>, <<-899322, 0, 117, 1000000, -98007, -408270>>,
    <<-899322, 0, 126, 1000000, -171735, -528594>>, <<-899322, 0, 135, 1000000, -263379, -635903>>,
    <<-899322, 0, 144, 1000000, -370686, -727556>>, <<-899322, 0, 153, 1000000, -491012, -801295>>,
    <<-899322, 0, 162, 1000000, -621396, -855302>>, <<-899322, 0, 171, 1000000, -758626, -888249>>,
    <<-899322, 0, 180, 1000000, -899322, -899322>>, <<-899322, 0, 189, 1000000, -1040018, -888249>>,
    <<-899322, 0, 198, 1000000, -1177248, -855302>>, <<-899322, 0, 207, 1000000, -1307632, -801295>>,
    <<-899322, 0, 216, 1000000, -1427958, -727556>>, <<-899322, 0, 225, 1000000, -1535265, -635903>>,
    <<-899322, 0, 234, 1000000, -1626909, -528594>>, <<-899322, 0, 243, 1000000, -1700637, -408270>>,
    <<-899322, 0, 252, 1000000, -1754634, -277895>>, <<-899322, 0, 261, 1000000, -1787573, -140679>>,
    <<-899322, 0, 270, 1000000, -1798644, 0>>, <<-899322, 0, 279, 1000000, -1787573, 140679>>,
    <<-899322, 0, 288, 1000000, -1754634, 277895>>, <<-899322, 0, 297, 1000000, -1700637, 408270>>,
    <<-899322, 0, 306, 1000000, -1626909, 528594>>, <<-899322, 0, 315, 1000000, -1535265, 635903>>,
    <<-899322, 0, 324, 1000000, -1427958, 727556>>, <<-899322, 0, 333, 1000000, -1307632, 801295>>,
    <<-899322, 0, 342, 1000000, -1177248, 855302>>, <<-899322, 0, 351, 1000000, -1040018, 888249>>,
    <<-408310, 801295, 0, 1000000, -408310, 1700617>>, <<-408310, 801295, 9, 1000000, -267570, 1689541>>,
    <<-408310, 801295, 18, 1000000, -130298, 1656588>>, <<-408310, 801295, 27, 1000000, 120, 1602569>>,
    <<-408310, 801295, 36, 1000000, 120472, 1528817>>, <<-408310, 801295, 45, 1000000, 227793, 1437149>>,
    <<-408310, 801295, 54, 1000000, 319442, 1329824>>, <<-408310, 801295, 63, 1000000, 393163, 1209487>>,
    <<-408310, 801295, 72, 1000000, 447144, 1079101>>, <<-408310, 801295, 81, 1000000, 480059, 941878>>,
    <<-408310, 801295, 90, 1000000, 491100, 801196>>, <<-408310, 801295, 99, 1000000, 479998, 660519>>,
    <<-408310, 801295, 108, 1000000, 447028, 523310>>, <<-408310, 801295, 117, 1000000, 393003, 392946>>,
    <<-408310, 801295, 126, 1000000, 319254, 272637>>, <<-408310, 801295, 135, 1000000, 227596, 165342>>,
    <<-408310, 801295, 144, 1000000, 120284, 73705>>, <<-408310, 801295, 153, 1000000, -40, -20>>,
    <<-408310, 801295, 162, 1000000, -130415, -54017>>, <<-408310, 801295, 171, 1000000, -267631, -86956>>,
    <<-408310, 801295, 180, 1000000, -408310, -98027>>, <<-408310, 801295, 189, 1000000, -548989, -86956>>,
    <<-408310, 801295, 198, 1000000, -686205, -54017>>, <<-408310, 801295, 207, 1000000, -816580, -20>>,
    <<-408310, 801295, 216, 1000000, -936904, 73705>>, <<-408310, 801295, 225, 1000000, -1044216, 165342>>,
    <<-408310, 801295, 234, 1000000, -1135874, 272637>>, <<-408310, 801295, 243, 1000000, -1209623, 392946>>,
    <<-408310, 801295, 252, 1000000, -1263648, 523310>>, <<-408310, 801295, 261, 1000000, -1296618, 660519>>,
    <<-408310, 801295, 270, 1000000, -1307720, 801196>>, <<-408310, 801295, 279, 1000000, -1296679, 941878>>,
    <<-408310, 801295, 288, 1000000, -1263764, 1079101>>, <<-408310, 801295, 297, 1000000, -1209783, 1209487>>,
    <<-408310, 801295, 306, 1000000, -1136062, 1329824>>, <<-408310, 801295, 315, 1000000, -1044413, 1437149>>,
    <<-408310, 801295, 324, 1000000, -937092, 1528817>>, <<-408310, 801295, 333, 1000000, -816740, 1602569>>,
    <<-408310, 801295, 342, 1000000, -686322, 1656588>>, <<-408310, 801295, 351, 1000000, -549050, 1689541>>,
    <<-394263, 808299, 1, 1000000, -378561, 1707484>>, <<-394263, 808299, 10, 1000000, -238035, 1693954>>,
    <<-394263, 808299, 19, 1000000, -101361, 1658610>>, <<-394263, 808299, 28, 1000000, 28095, 1602324>>,
    <<-394263, 808299, 37, 1000000, 147140, 1526482>>, <<-394263, 808299, 46, 1000000, 252844, 1432955>>,
    <<-394263, 808299, 55, 1000000, 342605, 1324048>>, <<-394263, 808299, 64, 1000000, 414214, 1202442>>,
    <<-394263, 808299, 73, 1000000, 465910, 1071134>>, <<-394263, 808299, 82, 1000000, 496424, 933358>>,
    <<-394263, 808299, 91, 1000000, 505008, 792505>>, <<-394263, 808299, 100, 1000000, 491452, 652043>>,
    <<-394263, 808299, 109, 1000000, 456093, 515430>>, <<-394263, 808299, 118, 1000000, 399802, 386029>>,
    <<-394263, 808299, 127, 1000000, 323964, 267024>>, <<-394263, 808299, 136, 1000000, 230447, 161346>>,
    <<-394263, 808299, 145, 1000000, 121553, 71595>>, <<-394263, 808299, 154, 1000000, -39, -19>>,
    <<-394263, 808299, 163, 1000000, -131337, -51732>>, <<-394263, 808299, 172, 1000000, -269107, -82272>>,
    <<-394263, 808299, 181, 1000000, -409958, -90886>>, <<-394263, 808299, 190, 1000000, -550422, -77362>>,
    <<-394263, 808299, 199, 1000000, -687043, -42033>>, <<-394263, 808299, 208, 1000000, -816455, 14230>>,
    <<-394263, 808299, 217, 1000000, -935475, 90043>>, <<-394263, 808299, 226, 1000000, -1041171, 183539>>,
    <<-394263, 808299, 235, 1000000, -1130944, 292417>>, <<-394263, 808299, 244, 1000000, -1202583, 413995>>,
    <<-394263, 808299, 253, 1000000, -1254324, 545282>>, <<-394263, 808299, 262, 1000000, -1284895, 683045>>,
    <<-394263, 808299, 271, 1000000, -1293541, 823894>>, <<-394263, 808299, 280, 1000000, -1280046, 964362>>,
    <<-394263, 808299, 289, 1000000, -1244742, 1100990>>, <<-394263, 808299, 298, 1000000, -1188493, 1230414>>,
    <<-394263, 808299, 307, 1000000, -1112682, 1349447>>, <<-394263, 808299, 316, 1000000, -1019173, 1455156>>,
    <<-394263, 808299, 325, 1000000, -910266, 1544937>>, <<-394263, 808299, 334, 1000000, -788644, 1616578>>,
    <<-394263, 808299, 343, 1000000, -657301, 1668313>>, <<-394263, 808299, 352, 1000000, -519474, 1698866>>,
    <<-899, 0, 0, 1000, -899, 899>>, <<-899, 0, 9, 1000, -758, 888>>,
    <<-899, 0, 18, 1000, -621, 855>>, <<-899, 0, 27, 1000, -491, 801>>,
    <<-899, 0, 36, 1000, -370, 728>>, <<-899, 0, 45, 1000, -263, 636>>,
    <<-899, 0, 54, 1000, -171, 529>>, <<-899, 0, 63, 1000, -98, 408>>,
    <<-899, 0, 72, 1000, -44, 278>>, <<-899, 0, 81, 1000, -11, 141>>,
    <<-899, 0, 90, 1000, 0, 0>>, <<-899, 0, 99, 1000, -11, -141>>,
    <<-899, 0, 108, 1000, -44, -278>>, <<-899, 0, 117, 1000, -98, -408>>,
    <<-899, 0, 126, 1000, -171, -529>>, <<-899, 0, 135, 1000, -263, -636>>,
    <<-899, 0, 144, 1000, -370, -728>>, <<-899, 0, 153, 1000, -491, -801>>,
    <<-899, 0, 162, 1000, -621, -855>>, <<-899, 0, 171, 1000, -758, -888>>,
    <<-899, 0, 180, 1000, -899, -899>>, <<-899, 0, 189, 1000, -1040, -888>>,
    <<-899, 0, 198, 1000, -1177, -855>>, <<-899, 0, 207, 1000, -1307, -801>>,
    <<-899, 0, 216, 1000, -1428, -728>>, <<-899, 0, 225, 1000, -1535, -636>>,
    <<-899, 0, 234, 1000, -1627, -529>>, <<-899, 0, 243, 1000, -1700, -408>>,
    <<-899, 0, 252, 1000, -1754, -278>>, <<-899, 0, 261, 1000, -1787, -141>>,
    <<-899, 0, 270, 1000, -1798, 0>>, <<-899, 0, 279, 1000, -1787, 141>>,
    <<-899, 0, 288, 1000, -1754, 278>>, <<-899, 0, 297, 1000, -1700, 408>>,
    <<-899, 0, 306, 1000, -1627, 529>>, <<-899, 0, 315, 1000, -1535, 636>>,
    <<-899, 0, 324, 1000, -1428, 728>>, <<-899, 0, 333, 1000, -1307, 801>>,
    <<-899, 0, 342, 1000, -1177, 855>>, <<-899, 0, 351, 1000, -1040, 888>>,
    <<-408, 801, 0, 1000, -408, 1700>>, <<-408, 801, 9, 1000, -267, 1689>>,
    <<-408, 801, 18, 1000, -130, 1656>>, <<-408, 801, 27, 1000, 0, 1602>>,
    <<-408, 801, 36, 1000, 121, 1529>>, <<-408, 801, 45, 1000, 228, 1437>>,
    <<-408, 801, 54, 1000, 320, 1330>>, <<-408, 801, 63, 1000, 393, 1209>>,
    <<-408, 801, 72, 1000, 447, 1079>>, <<-408, 801, 81, 1000, 480, 942>>,
    <<-408, 801, 90, 1000, 491, 801>>, <<-408, 801, 99, 1000, 480, 660>>,
    <<-408, 801, 108, 1000, 447, 523>>, <<-408, 801, 117, 1000, 393, 393>>,
    <<-408, 801, 126, 1000, 320, 272>>, <<-408, 801, 135, 1000, 228, 165>>,
    <<-408, 801, 144, 1000, 121, 73>>, <<-408, 801, 153, 1000, 0, 0>>,
    <<-408, 801, 162, 1000, -130, -54>>, <<-408, 801, 171, 1000, -267, -87>>,
    <<-408, 801, 180, 1000, -408, -98>>, <<-408, 801, 189, 1000, -549, -87>>,
    <<-408, 801, 198, 1000, -686, -54>>, <<-408, 801, 207, 1000, -816, 0>>,
    <<-408, 801, 216, 1000, -937, 73>>, <<-408, 801, 225, 1000, -1044, 165>>,
    <<-408, 801, 234, 1000, -1136, 272>>, <<-408, 801, 243, 1000, -1209, 393>>,
    <<-408, 801, 252, 1000, -1263, 523>>, <<-408, 801, 261, 1000, -1296, 660>>,
    <<-408, 801, 270, 1000, -1307, 801>>, <<-408, 801, 279, 1000, -1296, 942>>,
    <<-408, 801, 288, 1000, -1263, 1079>>, <<-408, 801, 297, 1000, -1209, 1209>>,
    <<-408, 801, 306, 1000, -1136, 1330>>, <<-408, 801, 315, 1000, -1044, 1437>>,
    <<-408, 801, 324, 1000, -937, 1529>>, <<-408, 801, 333, 1000, -816, 1602>>,
    <<-408, 801, 342, 1000, -686, 1656>>, <<-408, 801, 351, 1000, -549, 1689>>,
    <<-394, 808, 1, 1000, -378, 1707>>, <<-394, 808, 10, 1000, -238, 1694>>,
    <<-394, 808, 19, 1000, -101, 1658>>, <<-394, 808, 28, 1000, 28, 1602>>,
    <<-394, 808, 37, 1000, 147, 1526>>, <<-394, 808, 46, 1000, 253, 1433>>,
    <<-394, 808, 55, 1000, 343, 1324>>, <<-394, 808, 64, 1000, 414, 1202>>,
    <<-394, 808, 73, 1000, 466, 1071>>, <<-394, 808, 82, 1000, 497, 933>>,
    <<-394, 808, 91, 1000, 505, 792>>, <<-394, 808, 100, 1000, 492, 652>>,
    <<-394, 808, 109, 1000, 456, 515>>, <<-394, 808, 118, 1000, 400, 386>>,
    <<-394, 808, 127, 1000, 324, 267>>, <<-394, 808, 136, 1000, 231, 161>>,
    <<-394, 808, 145, 1000, 122, 71>>, <<-394, 808, 154, 1000, 0, 0>>,
    <<-394, 808, 163, 1000, -131, -52>>, <<-394, 808, 172, 1000, -269, -83>>,
    <<-394, 808, 181, 1000, -410, -91>>, <<-394, 808, 190, 1000, -550, -78>>,
    <<-394, 808, 199, 1000, -687, -42>>, <<-394, 808, 208, 1000, -816, 14>>,
    <<-394, 808, 217, 1000, -935, 90>>, <<-394, 808, 226, 1000, -1041, 183>>,
    <<-394, 808, 235, 1000, -1131, 292>>, <<-394, 808, 244, 1000, -1202, 414>>,
    <<-394, 808, 253, 1000, -1254, 545>>, <<-394, 808, 262, 1000, -1285, 683>>,
    <<-394, 808, 271, 1000, -1293, 824>>, <<-394, 808, 280, 1000, -1280, 964>>,
    <<-394, 808, 289, 1000, -1244, 1101>>, <<-394, 808, 298, 1000, -1188, 1230>>,
    <<-394, 808, 307, 1000, -1112, 1349>>, <<-394, 808, 316, 1000, -1019, 1455>>,
    <<-394, 808, 325, 1000, -910, 1545>>, <<-394, 808, 334, 1000, -788, 1616>>,
    <<-394, 808, 343, 1000, -657, 1668>>, <<-394, 808, 352, 1000, -519, 1699>>,
    <<0, 0, 0, 0, 0, 0>>, <<0, 0, 0, 105, 0, 94>>,
    <<0, 0, 0, 504, 0, 453>>, <<0, 0, 0, 1000, 0, 899>>,
    <<0, 0, 0, 1000000, 0, 899322>>, <<0, 0, 0, 250000000, -180000000, -44830401>>,
    <<0, 0, 1, 0, 0, 0>>, <<0, 0, 1, 1000, 16, 899>>,
    <<0, 0, 1, 1000000, 15697, 899185>>, <<0, 0, 9, 0, 0, 0>>,
    <<0, 0, 9, 105, 15, 93>>, <<0, 0, 9, 504, 71, 448>>,
    <<0, 0, 9, 1000, 141, 888>>, <<0, 0, 9, 1000000, 140696, 888249>>,
    <<0, 0, 9, 250000000, -171160673, -44133357>>, <<0, 0, 10, 0, 0, 0>>,
    <<0, 0, 10, 1000, 156, 886>>, <<0, 0, 10, 1000000, 156178, 885658>>,
    <<0, 0, 18, 0, 0, 0>>, <<0, 0, 18, 105, 29, 90>>,
    <<0, 0, 18, 504, 140, 431>>, <<0, 0, 18, 1000, 278, 855>>,
    <<0, 0, 18, 1000000, 277926, 855302>>, <<0, 0, 18, 250000000, -162923410, -42106048>>,
    <<0, 0, 19, 0, 0, 0>>, <<0, 0, 19, 1000, 293, 850>>,
    <<0, 0, 19, 1000000, 292812, 850322>>, <<0, 0, 27, 0, 0, 0>>,
    <<0, 0, 27, 105, 43, 84>>, <<0, 0, 27, 504, 206, 404>>,
    <<0, 0, 27, 1000, 408, 801>>, <<0, 0, 27, 1000000, 408310, 801295>>,
    <<0, 0, 27, 250000000, -155709832, -38915168>>, <<0, 0, 28, 0, 0, 0>>,
    <<0, 0, 28, 1000, 422, 794>>, <<0, 0, 28, 1000000, 422233, 794047>>,
    <<0, 0, 36, 0, 0, 0>>, <<0, 0, 36, 105, 56, 76>>,
    <<0, 0, 36, 504, 266, 367>>, <<0, 0, 36, 1000, 529, 728>>,
    <<0, 0, 36, 1000000, 528636, 727556>>, <<0, 0, 36, 250000000, -149701583, -34775722>>,
    <<0, 0, 37, 0, 0, 0>>, <<0, 0, 37, 1000, 541, 718>>,
    <<0, 0, 37, 1000000, 541254, 718219>>, <<0, 0, 45, 0, 0, 0>>,
    <<0, 0, 45, 105, 67, 67>>, <<0, 0, 45, 504, 321, 321>>,
    <<0, 0, 45, 1000, 636, 636>>, <<0, 0, 45, 1000000, 635943, 635903>>,
    <<0, 0, 45, 250000000, -144895352, -29901986>>, <<0, 0, 46, 0, 0, 0>>,
    <<0, 0, 46, 1000, 647, 625>>, <<0, 0, 46, 1000000, 646943, 624708>>,
    <<0, 0, 54, 0, 0, 0>>, <<0, 0, 54, 105, 76, 56>>,
    <<0, 0, 54, 504, 367, 266>>, <<0, 0, 54, 1000, 728, 529>>,
    <<0, 0, 54, 1000000, 727587, 528594>>, <<0, 0, 54, 250000000, -141192310, -24481213>>,
    <<0, 0, 55, 0, 0, 0>>, <<0, 0, 55, 1000, 737, 516>>,
    <<0, 0, 55, 1000000, 736701, 515815>>, <<0, 0, 63, 0, 0, 0>>,
    <<0, 0, 63, 105, 84, 43>>, <<0, 0, 63, 504, 404, 206>>,
    <<0, 0, 63, 1000, 801, 408>>, <<0, 0, 63, 1000000, 801315, 408270>>,
    <<0, 0, 63, 250000000, -138467172, -18667045>>, <<0, 0, 64, 0, 0, 0>>,
    <<0, 0, 64, 1000, 808, 394>>, <<0, 0, 64, 1000000, 808318, 394224>>,
    <<0, 0, 72, 0, 0, 0>>, <<0, 0, 72, 105, 90, 29>>,
    <<0, 0, 72, 504, 431, 140>>, <<0, 0, 72, 1000, 855, 278>>,
    <<0, 0, 72, 1000000, 855312, 277895>>, <<0, 0, 72, 250000000, -136606359, -12583387>>,
    <<0, 0, 73, 0, 0, 0>>, <<0, 0, 73, 1000, 860, 263>>,
    <<0, 0, 73, 1000000, 860032, 262926>>, <<0, 0, 81, 0, 0, 0>>,
    <<0, 0, 81, 105, 93, 15>>, <<0, 0, 81, 504, 448, 71>>,
    <<0, 0, 81, 1000, 888, 141>>, <<0, 0, 81, 1000000, 888251, 140679>>,
    <<0, 0, 81, 250000000, -135524462, -6331915>>, <<0, 0, 82, 0, 0, 0>>,
    <<0, 0, 82, 1000, 891, 125>>, <<0, 0, 82, 1000000, 890571, 125156>>,
    <<0, 0, 90, 0, 0, 0>>, <<0, 0, 90, 105, 94, 0>>,
    <<0, 0, 90, 504, 453, 0>>, <<0, 0, 90, 1000, 899, 0>>,
    <<0, 0, 90, 1000000, 899322, 0>>, <<0, 0, 90, 250000000, -135169599, 0>>,
    <<0, 0, 91, 0, 0, 0>>, <<0, 0, 91, 1000, 899, -16>>,
    <<0, 0, 91, 1000000, 899185, -15695>>, <<0, 0, 99, 0, 0, 0>>,
    <<0, 0, 99, 105, 93, -15>>, <<0, 0, 99, 504, 448, -71>>,
    <<0, 0, 99, 1000, 888, -141>>, <<0, 0, 99, 1000000, 888251, -140679>>,
    <<0, 0, 99, 250000000, -135524462, 6331915>>, <<0, 0, 100, 0, 0, 0>>,
    <<0, 0, 100, 1000, 886, -156>>, <<0, 0, 100, 1000000, 885661, -156159>>,
    <<0, 0, 108, 0, 0, 0>>, <<0, 0, 108, 105, 90, -29>>,
    <<0, 0, 108, 504, 431, -140>>, <<0, 0, 108, 1000, 855, -278>>,
    <<0, 0, 108, 1000000, 855312, -277895>>, <<0, 0, 108, 250000000, -136606359, 12583387>>,
    <<0, 0, 109, 0, 0, 0>>, <<0, 0, 109, 1000, 850, -293>>,
    <<0, 0, 109, 1000000, 850333, -292780>>, <<0, 0, 117, 0, 0, 0>>,
    <<0, 0, 117, 105, 84, -43>>, <<0, 0, 117, 504, 404, -206>>,
    <<0, 0, 117, 1000, 801, -408>>, <<0, 0, 117, 1000000, 801315, -408270>>,
    <<0, 0, 117, 250000000, -138467172, 18667045>>, <<0, 0, 118, 0, 0, 0>>,
    <<0, 0, 118, 1000, 794, -422>>, <<0, 0, 118, 1000000, 794068, -422192>>,
    <<0, 0, 126, 0, 0, 0>>, <<0, 0, 126, 105, 76, -56>>,
    <<0, 0, 126, 504, 367, -266>>, <<0, 0, 126, 1000, 728, -529>>,
    <<0, 0, 126, 1000000, 727587, -528594>>, <<0, 0, 126, 250000000, -141192310, 24481213>>,
    <<0, 0, 127, 0, 0, 0>>, <<0, 0, 127, 1000, 718, -541>>,
    <<0, 0, 127, 1000000, 718252, -541211>>, <<0, 0, 135, 0, 0, 0>>,
    <<0, 0, 135, 105, 67, -67>>, <<0, 0, 135, 504, 321, -321>>,
    <<0, 0, 135, 1000, 636, -636>>, <<0, 0, 135, 1000000, 635943, -635903>>,
    <<0, 0, 135, 250000000, -144895352, 29901986>>, <<0, 0, 136, 0, 0, 0>>,
    <<0, 0, 136, 1000, 625, -647>>, <<0, 0, 136, 1000000, 624748, -646905>>,
    <<0, 0, 144, 0, 0, 0>>, <<0, 0, 144, 105, 56, -76>>,
    <<0, 0, 144, 504, 266, -367>>, <<0, 0, 144, 1000, 529, -728>>,
    <<0, 0, 144, 1000000, 528636, -727556>>, <<0, 0, 144, 250000000, -149701583, 34775722>>,
    <<0, 0, 145, 0, 0, 0>>, <<0, 0, 145, 1000, 516, -737>>,
    <<0, 0, 145, 1000000, 515858, -736671>>, <<0, 0, 153, 0, 0, 0>>,
    <<0, 0, 153, 105, 43, -84>>, <<0, 0, 153, 504, 206, -404>>,
    <<0, 0, 153, 1000, 408, -801>>, <<0, 0, 153, 1000000, 408310, -801295>>,
    <<0, 0, 153, 250000000, -155709832, 38915168>>, <<0, 0, 154, 0, 0, 0>>,
    <<0, 0, 154, 1000, 394, -808>>, <<0, 0, 154, 1000000, 394263, -808299>>,
    <<0, 0, 162, 0, 0, 0>>, <<0, 0, 162, 105, 29, -90>>,
    <<0, 0, 162, 504, 140, -431>>, <<0, 0, 162, 1000, 278, -855>>,
    <<0, 0, 162, 1000000, 277926, -855302>>, <<0, 0, 162, 250000000, -162923410, 42106048>>,
    <<0, 0, 163, 0, 0, 0>>, <<0, 0, 163, 1000, 263, -860>>,
    <<0, 0, 163, 1000000, 262956, -860023>>, <<0, 0, 171, 0, 0, 0>>,
    <<0, 0, 171, 105, 15, -93>>, <<0, 0, 171, 504, 71, -448>>,
    <<0, 0, 171, 1000, 141, -888>>, <<0, 0, 171, 1000000, 140696, -888249>>,
    <<0, 0, 171, 250000000, -171160673, 44133357>>, <<0, 0, 172, 0, 0, 0>>,
    <<0, 0, 172, 1000, 125, -891>>, <<0, 0, 172, 1000000, 125171, -890569>>,
    <<0, 0, 180, 0, 0, 0>>, <<0, 0, 180, 105, 0, -94>>,
    <<0, 0, 180, 504, 0, -453>>, <<0, 0, 180, 1000, 0, -899>>,
    <<0, 0, 180, 1000000, 0, -899322>>, <<0, 0, 180, 250000000, -180000000, 44830401>>,
    <<0, 0, 181, 0, 0, 0>>, <<0, 0, 181, 1000, -16, -899>>,
    <<0, 0, 181, 1000000, -15697, -899185>>, <<0, 0, 189, 0, 0, 0>>,
    <<0, 0, 189, 105, -15, -93>>, <<0, 0, 189, 504, -71, -448>>,
    <<0, 0, 189, 1000, -141, -888>>, <<0, 0, 189, 1000000, -140696, -888249>>,
    <<0, 0, 189, 250000000, 171160673, 44133357>>, <<0, 0, 190, 0, 0, 0>>,
    <<0, 0, 190, 1000, -156, -886>>, <<0, 0, 190, 1000000, -156178, -885658>>,
    <<0, 0, 198, 0, 0, 0>>, <<0, 0, 198, 105, -29, -90>>,
    <<0, 0, 198, 504, -140, -431>>, <<0, 0, 198, 1000, -278, -855>>,
    <<0, 0, 198, 1000000, -277926, -855302>>, <<0, 0, 198, 250000000, 162923410, 42106048>>,
    <<0, 0, 199, 0, 0, 0>>, <<0, 0, 199, 1000, -293, -850>>,
    <<0, 0, 199, 1000000, -292812, -850322>>, <<0, 0, 207, 0, 0, 0>>,
    <<0, 0, 207, 105, -43, -84>>, <<0, 0, 207, 504, -206, -404>>,
    <<0, 0, 207, 1000, -408, -801>>, <<0, 0, 207, 1000000, -408310, -801295>>,
    <<0, 0, 207, 250000000, 155709832, 38915168>>, <<0, 0, 208, 0, 0, 0>>,
    <<0, 0, 208, 1000, -422, -794>>, <<0, 0, 208, 1000000, -422233, -794047>>,
    <<0, 0, 216, 0, 0, 0>>, <<0, 0, 216, 105, -56, -76>>,
    <<0, 0, 216, 504, -266, -367>>, <<0, 0, 216, 1000, -529, -728>>,
    <<0, 0, 216, 1000000, -528636, -727556>>, <<0, 0, 216, 250000000, 149701583, 34775722>>,
    <<0, 0, 217, 0, 0, 0>>, <<0, 0, 217, 1000, -541, -718>>,
    <<0, 0, 217, 1000000, -541254, -718219>>, <<0, 0, 225, 0, 0, 0>>,
    <<0, 0, 225, 105, -67, -67>>, <<0, 0, 225, 504, -321, -321>>,
    <<0, 0, 225, 1000, -636, -636>>, <<0, 0, 225, 1000000, -635943, -635903>>,
    <<0, 0, 225, 250000000, 144895352, 29901986>>, <<0, 0, 226, 0, 0, 0>>,
    <<0, 0, 226, 1000, -647, -625>>, <<0, 0, 226, 1000000, -646943, -624708>>,
    <<0, 0, 234, 0, 0, 0>>, <<0, 0, 234, 105, -76, -56>>,
    <<0, 0, 234, 504, -367, -266>>, <<0, 0, 234, 1000, -728, -529>>,
    <<0, 0, 234, 1000000, -727587, -528594>>, <<0, 0, 234, 250000000, 141192310, 24481213>>,
    <<0, 0, 235, 0, 0, 0>>, <<0, 0, 235, 1000, -737, -516>>,
    <<0, 0, 235, 1000000, -736701, -515815>>, <<0, 0, 243, 0, 0, 0>>,
    <<0, 0, 243, 105, -84, -43>>, <<0, 0, 243, 504, -404, -206>>,
    <<0, 0, 243, 1000, -801, -408>>, <<0, 0, 243, 1000000, -801315, -408270>>,
    <<0, 0, 243, 250000000, 138467172, 18667045>>, <<0, 0, 244, 0, 0, 0>>,
    <<0, 0, 244, 1000, -808, -394>>, <<0, 0, 244, 1000000, -808318, -394224>>,
    <<0, 0, 252, 0, 0, 0>>, <<0, 0, 252, 105, -90, -29>>,
    <<0, 0, 252, 504, -431, -140>>, <<0, 0, 252, 1000, -855, -278>>,
    <<0, 0, 252, 1000000, -855312, -277895>>, <<0, 0, 252, 250000000, 136606359, 12583387>>,
    <<0, 0, 253, 0, 0, 0>>, <<0, 0, 253, 1000, -860, -263>>,
    <<0, 0, 253, 1000000, -860032, -262926>>, <<0, 0, 261, 0, 0, 0>>,
    <<0, 0, 261, 105, -93, -15>>, <<0, 0, 261, 504, -448, -71>>,
    <<0, 0, 261, 1000, -888, -141>>, <<0, 0, 261, 1000000, -888251, -140679>>,
    <<0, 0, 261, 250000000, 135524462, 6331915>>, <<0, 0, 262, 0, 0, 0>>,
    <<0, 0, 262, 1000, -891, -125>>, <<0, 0, 262, 1000000, -890571, -125156>>,
    <<0, 0, 270, 0, 0, 0>>, <<0, 0, 270, 105, -94, 0>>,
    <<0, 0, 270, 504, -453, 0>>, <<0, 0, 270, 1000, -899, 0>>,
    <<0, 0, 270, 1000000, -899322, 0>>, <<0, 0, 270, 250000000, 135169599, 0>>,
    <<0, 0, 271, 0, 0, 0>>, <<0, 0, 271, 1000, -899, 16>>,
    <<0, 0, 271, 1000000, -899185, 15695>>, <<0, 0, 279, 0, 0, 0>>,
    <<0, 0, 279, 105, -93, 15>>, <<0, 0, 279, 504, -448, 71>>,
    <<0, 0, 279, 1000, -888, 141>>, <<0, 0, 279, 1000000, -888251, 140679>>,
    <<0, 0, 279, 250000000, 135524462, -6331915>>, <<0, 0, 280, 0, 0, 0>>,
    <<0, 0, 280, 1000, -886, 156>>, <<0, 0, 280, 1000000, -885661, 156159>>,
    <<0, 0, 288, 0, 0, 0>>, <<0, 0, 288, 105, -90, 29>>,
    <<0, 0, 288, 504, -431, 140>>, <<0, 0, 288, 1000, -855, 278>>,
    <<0, 0, 288, 1000000, -855312, 277895>>, <<0, 0, 288, 250000000, 136606359, -12583387>>,
    <<0, 0, 289, 0, 0, 0>>, <<0, 0, 289, 1000, -850, 293>>,
    <<0, 0, 289, 1000000, -850333, 292780>>, <<0, 0, 297, 0, 0, 0>>,
    <<0, 0, 297, 105, -84, 43>>, <<0, 0, 297, 504, -404, 206>>,
    <<0, 0, 297, 1000, -801, 408>>, <<0, 0, 297, 1000000, -801315, 408270>>,
    <<0, 0, 297, 250000000, 138467172, -18667045>>, <<0, 0, 298, 0, 0, 0>>,
    <<0, 0, 298, 1000, -794, 422>>, <<0, 0, 298, 1000000, -794068, 422192>>,
    <<0, 0, 306, 0, 0, 0>>, <<0, 0, 306, 105, -76, 56>>,
    <<0, 0, 306, 504, -367, 266>>, <<0, 0, 306, 1000, -728, 529>>,
    <<0, 0, 306, 1000000, -727587, 528594>>, <<0, 0, 306, 250000000, 141192310, -24481213>>,
    <<0, 0, 307, 0, 0, 0>>, <<0, 0, 307, 1000, -718, 541>>,
    <<0, 0, 307, 1000000, -718252, 541211>>, <<0, 0, 315, 0, 0, 0>>,
    <<0, 0, 315, 105, -67, 67>>, <<0, 0, 315, 504, -321, 321>>,
    <<0, 0, 315, 1000, -636, 636>>, <<0, 0, 315, 1000000, -635943, 635903>>,
    <<0, 0, 315, 250000000, 144895352, -29901986>>, <<0, 0, 316, 0, 0, 0>>,
    <<0, 0, 316, 1000, -625, 647>>, <<0, 0, 316, 1000000, -624748, 646905>>,
    <<0, 0, 324, 0, 0, 0>>, <<0, 0, 324, 105, -56, 76>>,
    <<0, 0, 324, 504, -266, 367>>, <<0, 0, 324, 1000, -529, 728>>,
    <<0, 0, 324, 1000000, -528636, 727556>>, <<0, 0, 324, 250000000, 149701583, -34775722>>,
    <<0, 0, 325, 0, 0, 0>>, <<0, 0, 325, 1000, -516, 737>>,
    <<0, 0, 325, 1000000, -515858, 736671>>, <<0, 0, 333, 0, 0, 0>>,
    <<0, 0, 333, 105, -43, 84>>, <<0, 0, 333, 504, -206, 404>>,
    <<0, 0, 333, 1000, -408, 801>>, <<0, 0, 333, 1000000, -408310, 801295>>,
    <<0, 0, 333, 250000000, 155709832, -38915168>>, <<0, 0, 334, 0, 0, 0>>,
    <<0, 0, 334, 1000, -394, 808>>, <<0, 0, 334, 1000000, -394263, 808299>>,
    <<0, 0, 342, 0, 0, 0>>, <<0, 0, 342, 105, -29, 90>>,
    <<0, 0, 342, 504, -140, 431>>, <<0, 0, 342, 1000, -278, 855>>,
    <<0, 0, 342, 1000000, -277926, 855302>>, <<0, 0, 342, 250000000, 162923410, -42106048>>,
    <<0, 0, 343, 0, 0, 0>>, <<0, 0, 343, 1000, -263, 860>>,
    <<0, 0, 343, 1000000, -262956, 860023>>, <<0, 0, 351, 0, 0, 0>>,
    <<0, 0, 351, 105, -15, 93>>, <<0, 0, 351, 504, -71, 448>>,
    <<0, 0, 351, 1000, -141, 888>>, <<0, 0, 351, 1000000, -140696, 888249>>,
    <<0, 0, 351, 250000000, 171160673, -44133357>>, <<0, 0, 352, 0, 0, 0>>,
    <<0, 0, 352, 1000, -125, 891>>, <<0, 0, 352, 1000000, -125171, 890569>>,
    <<394, -808, 1, 1000, 410, 91>>, <<394, -808, 10, 1000, 550, 78>>,
    <<394, -808, 19, 1000, 687, 42>>, <<394, -808, 28, 1000, 816, -14>>,
    <<394, -808, 37, 1000, 935, -90>>, <<394, -808, 46, 1000, 1041, -183>>,
    <<394, -808, 55, 1000, 1131, -292>>, <<394, -808, 64, 1000, 1202, -414>>,
    <<394, -808, 73, 1000, 1254, -545>>, <<394, -808, 82, 1000, 1285, -683>>,
    <<394, -808, 91, 1000, 1293, -824>>, <<394, -808, 100, 1000, 1280, -964>>,
    <<394, -808, 109, 1000, 1244, -1101>>, <<394, -808, 118, 1000, 1188, -1230>>,
    <<394, -808, 127, 1000, 1112, -1349>>, <<394, -808, 136, 1000, 1019, -1455>>,
    <<394, -808, 145, 1000, 910, -1545>>, <<394, -808, 154, 1000, 788, -1616>>,
    <<394, -808, 163, 1000, 657, -1668>>, <<394, -808, 172, 1000, 519, -1699>>,
    <<394, -808, 181, 1000, 378, -1707>>, <<394, -808, 190, 1000, 238, -1694>>,
    <<394, -808, 199, 1000, 101, -1658>>, <<394, -808, 208, 1000, -28, -1602>>,
    <<394, -808, 217, 1000, -147, -1526>>, <<394, -808, 226, 1000, -253, -1433>>,
    <<394, -808, 235, 1000, -343, -1324>>, <<394, -808, 244, 1000, -414, -1202>>,
    <<394, -808, 253, 1000, -466, -1071>>, <<394, -808, 262, 1000, -497, -933>>,
    <<394, -808, 271, 1000, -505, -792>>, <<394, -808, 280, 1000, -492, -652>>,
    <<394, -808, 289, 1000, -456, -515>>, <<394, -808, 298, 1000, -400, -386>>,
    <<394, -808, 307, 1000, -324, -267>>, <<394, -808, 316, 1000, -231, -161>>,
    <<394, -808, 325, 1000, -122, -71>>, <<394, -808, 334, 1000, 0, 0>>,
    <<394, -808, 343, 1000, 131, 52>>, <<394, -808, 352, 1000, 269, 83>>,
    <<408, -801, 0, 1000, 408, 98>>, <<408, -801, 9, 1000, 549, 87>>,
    <<408, -801, 18, 1000, 686, 54>>, <<408, -801, 27, 1000, 816, 0>>,
    <<408, -801, 36, 1000, 937, -73>>, <<408, -801, 45, 1000, 1044, -165>>,
    <<408, -801, 54, 1000, 1136, -272>>, <<408, -801, 63, 1000, 1209, -393>>,
    <<408, -801, 72, 1000, 1263, -523>>, <<408, -801, 81, 1000, 1296, -660>>,
    <<408, -801, 90, 1000, 1307, -801>>, <<408, -801, 99, 1000, 1296, -942>>,
    <<408, -801, 108, 1000, 1263, -1079>>, <<408, -801, 117, 1000, 1209, -1209>>,
    <<408, -801, 126, 1000, 1136, -1330>>, <<408, -801, 135, 1000, 1044, -1437>>,
    <<408, -801, 144, 1000, 937, -1529>>, <<408, -801, 153, 1000, 816, -1602>>,
    <<408, -801, 162, 1000, 686, -1656>>, <<408, -801, 171, 1000, 549, -1689>>,
    <<408, -801, 180, 1000, 408, -1700>>, <<408, -801, 189, 1000, 267, -1689>>,
    <<408, -801, 198, 1000, 130, -1656>>, <<408, -801, 207, 1000, 0, -1602>>,
    <<408, -801, 216, 1000, -121, -1529>>, <<408, -801, 225, 1000, -228, -1437>>,
    <<408, -801, 234, 1000, -320, -1330>>, <<408, -801, 243, 1000, -393, -1209>>,
    <<408, -801, 252, 1000, -447, -1079>>, <<408, -801, 261, 1000, -480, -942>>,
    <<408, -801, 270, 1000, -491, -801>>, <<408, -801, 279, 1000, -480, -660>>,
    <<408, -801, 288, 1000, -447, -523>>, <<408, -801, 297, 1000, -393, -393>>,
    <<408, -801, 306, 1000, -320, -272>>, <<408, -801, 315, 1000, -228, -165>>,
    <<408, -801, 324, 1000, -121, -73>>, <<408, -801, 333, 1000, 0, 0>>,
    <<408, -801, 342, 1000, 130, 54>>, <<408, -801, 351, 1000, 267, 87>>,
    <<899, 0, 0, 1000, 899, 899>>, <<899, 0, 9, 1000, 1040, 888>>,
    <<899, 0, 18, 1000, 1177, 855>>, <<899, 0, 27, 1000, 1307, 801>>,
    <<899, 0, 36, 1000, 1428, 728>>, <<899, 0, 45, 1000, 1535, 636>>,
    <<899, 0, 54, 1000, 1627, 529>>, <<899, 0, 63, 1000, 1700, 408>>,
    <<899, 0, 72, 1000, 1754, 278>>, <<899, 0, 81, 1000, 1787, 141>>,
    <<899, 0, 90, 1000, 1798, 0>>, <<899, 0, 99, 1000, 1787, -141>>,
    <<899, 0, 108, 1000, 1754, -278>>, <<899, 0, 117, 1000, 1700, -408>>,
    <<899, 0, 126, 1000, 1627, -529>>, <<899, 0, 135, 1000, 1535, -636>>,
    <<899, 0, 144, 1000, 1428, -728>>, <<899, 0, 153, 1000, 1307, -801>>,
    <<899, 0, 162, 1000, 1177, -855>>, <<899, 0, 171, 1000, 1040, -888>>,
    <<899, 0, 180, 1000, 899, -899>>, <<899, 0, 189, 1000, 758, -888>>,
    <<899, 0, 198, 1000, 621, -855>>, <<899, 0, 207, 1000, 491, -801>>,
    <<899, 0, 216, 1000, 370, -728>>, <<899, 0, 225, 1000, 263, -636>>,
    <<899, 0, 234, 1000, 171, -529>>, <<899, 0, 243, 1000, 98, -408>>,
    <<899, 0, 252, 1000, 44, -278>>, <<899, 0, 261, 1000, 11, -141>>,
    <<899, 0, 270, 1000, 0, 0>>, <<899, 0, 279, 1000, 11, 141>>,
    <<899, 0, 288, 1000, 44, 278>>, <<899, 0, 297, 1000, 98, 408>>,
    <<899, 0, 306, 1000, 171, 529>>, <<899, 0, 315, 1000, 263, 636>>,
    <<899, 0, 324, 1000, 370, 728>>, <<899, 0, 333, 1000, 491, 801>>,
    <<899, 0, 342, 1000, 621, 855>>, <<899, 0, 351, 1000, 758, 888>>,
    <<394263, -808299, 1, 1000000, 409958, 90886>>, <<394263, -808299, 10, 1000000, 550422, 77362>>,
    <<394263, -808299, 19, 1000000, 687043, 42033>>, <<394263, -808299, 28, 1000000, 816455, -14230>>,
    <<394263, -808299, 37, 1000000, 935475, -90043>>, <<394263, -808299, 46, 1000000, 1041171, -183539>>,
    <<394263, -808299, 55, 1000000, 1130944, -292417>>, <<394263, -808299, 64, 1000000, 1202583, -413995>>,
    <<394263, -808299, 73, 1000000, 1254324, -545282>>, <<394263, -808299, 82, 1000000, 1284895, -683045>>,
    <<394263, -808299, 91, 1000000, 1293541, -823894>>, <<394263, -808299, 100, 1000000, 1280046, -964362>>,
    <<394263, -808299, 109, 1000000, 1244742, -1100990>>, <<394263, -808299, 118, 1000000, 1188493, -1230414>>,
    <<394263, -808299, 127, 1000000, 1112682, -1349447>>, <<394263, -808299, 136, 1000000, 1019173, -1455156>>,
    <<394263, -808299, 145, 1000000, 910266, -1544937>>, <<394263, -808299, 154, 1000000, 788644, -1616578>>,
    <<394263, -808299, 163, 1000000, 657301, -1668313>>, <<394263, -808299, 172, 1000000, 519474, -1698866>>,
    <<394263, -808299, 181, 1000000, 378561, -1707484>>, <<394263, -808299, 190, 1000000, 238035, -1693954>>,
    <<394263, -808299, 199, 1000000, 101361, -1658610>>, <<394263, -808299, 208, 1000000, -28095, -1602324>>,
    <<394263, -808299, 217, 1000000, -147140, -1526482>>, <<394263, -808299, 226, 1000000, -252844, -1432955>>,
    <<394263, -808299, 235, 1000000, -342605, -1324048>>, <<394263, -808299, 244, 1000000, -414214, -1202442>>,
    <<394263, -808299, 253, 1000000, -465910, -1071134>>, <<394263, -808299, 262, 1000000, -496424, -933358>>,
    <<394263, -808299, 271, 1000000, -505008, -792505>>, <<394263, -808299, 280, 1000000, -491452, -652043>>,
    <<394263, -808299, 289, 1000000, -456093, -515430>>, <<394263, -808299, 298, 1000000, -399802, -386029>>,
    <<394263, -808299, 307, 1000000, -323964, -267024>>, <<394263, -808299, 316, 1000000, -230447, -161346>>,
    <<394263, -808299, 325, 1000000, -121553, -71595>>, <<394263, -808299, 334, 1000000, 39, 19>>,
    <<394263, -808299, 343, 1000000, 131337, 51732>>, <<394263, -808299, 352, 1000000, 269107, 82272>>,
    <<408310, -801295, 0, 1000000, 408310, 98027>>, <<408310, -801295, 9, 1000000, 548989, 86956>>,
    <<408310, -801295, 18, 1000000, 686205, 54017>>, <<408310, -801295, 27, 1000000, 816580, 20>>,
    <<408310, -801295, 36, 1000000, 936904, -73705>>, <<408310, -801295, 45, 1000000, 1044216, -165342>>,
    <<408310, -801295, 54, 1000000, 1135874, -272637>>, <<408310, -801295, 63, 1000000, 1209623, -392946>>,
    <<408310, -801295, 72, 1000000, 1263648, -523310>>, <<408310, -801295, 81, 1000000, 1296618, -660519>>,
    <<408310, -801295, 90, 1000000, 1307720, -801196>>, <<408310, -801295, 99, 1000000, 1296679, -941878>>,
    <<408310, -801295, 108, 1000000, 1263764, -1079101>>, <<408310, -801295, 117, 1000000, 1209783, -1209487>>,
    <<408310, -801295, 126, 1000000, 1136062, -1329824>>, <<408310, -801295, 135, 1000000, 1044413, -1437149>>,
    <<408310, -801295, 144, 1000000, 937092, -1528817>>, <<408310, -801295, 153, 1000000, 816740, -1602569>>,
    <<408310, -801295, 162, 1000000, 686322, -1656588>>, <<408310, -801295, 171, 1000000, 549050, -1689541>>,
    <<408310, -801295, 180, 1000000, 408310, -1700617>>, <<408310, -801295, 189, 1000000, 267570, -1689541>>,
    <<408310, -801295, 198, 1000000, 130298, -1656588>>, <<408310, -801295, 207, 1000000, -120, -1602569>>,
    <<408310, -801295, 216, 1000000, -120472, -1528817>>, <<408310, -801295, 225, 1000000, -227793, -1437149>>,
    <<408310, -801295, 234, 1000000, -319442, -1329824>>, <<408310, -801295, 243, 1000000, -393163, -1209487>>,
    <<408310, -801295, 252, 1000000, -447144, -1079101>>, <<408310, -801295, 261, 1000000, -480059, -941878>>,
    <<408310, -801295, 270, 1000000, -491100, -801196>>, <<408310, -801295, 279, 1000000, -479998, -660519>>,
    <<408310, -801295, 288, 1000000, -447028, -523310>>, <<408310, -801295, 297, 1000000, -393003, -392946>>,
    <<408310, -801295, 306, 1000000, -319254, -272637>>, <<408310, -801295, 315, 1000000, -227596, -165342>>,
    <<408310, -801295, 324, 1000000, -120284, -73705>>, <<408310, -801295, 333, 1000000, 40, 20>>,
    <<408310, -801295, 342, 1000000, 130415, 54017>>, <<408310, -801295, 351, 1000000, 267631, 86956>>,
    <<899322, 0, 0, 1000000, 899322, 899322>>, <<899322, 0, 9, 1000000, 1040018, 888249>>,
    <<899322, 0, 18, 1000000, 1177248, 855302>>, <<899322, 0, 27, 1000000, 1307632, 801295>>,
    <<899322, 0, 36, 1000000, 1427958, 727556>>, <<899322, 0, 45, 1000000, 1535265, 635903>>,
    <<899322, 0, 54, 1000000, 1626909, 528594>>, <<899322, 0, 63, 1000000, 1700637, 408270>>,
    <<899322, 0, 72, 1000000, 1754634, 277895>>, <<899322, 0, 81, 1000000, 1787573, 140679>>,
    <<899322, 0, 90, 1000000, 1798644, 0>>, <<899322, 0, 99, 1000000, 1787573, -140679>>,
    <<899322, 0, 108, 1000000, 1754634, -277895>>, <<899322, 0, 117, 1000000, 1700637, -408270>>,
    <<899322, 0, 126, 1000000, 1626909, -528594>>, <<899322, 0, 135, 1000000, 1535265, -635903>>,
    <<899322, 0, 144, 1000000, 1427958, -727556>>, <<899322, 0, 153, 1000000, 1307632, -801295>>,
    <<899322, 0, 162, 1000000, 1177248, -855302>>, <<899322, 0, 171, 1000000, 1040018, -888249>>,
    <<899322, 0, 180, 1000000, 899322, -899322>>, <<899322, 0, 189, 1000000, 758626, -888249>>,
    <<899322, 0, 198, 1000000, 621396, -855302>>, <<899322, 0, 207, 1000000, 491012, -801295>>,
    <<899322, 0, 216, 1000000, 370686, -727556>>, <<899322, 0, 225, 1000000, 263379, -635903>>,
    <<899322, 0, 234, 1000000, 171735, -528594>>, <<899322, 0, 243, 1000000, 98007, -408270>>,
    <<899322, 0, 252, 1000000, 44010, -277895>>, <<899322, 0, 261, 1000000, 11071, -140679>>,
    <<899322, 0, 270, 1000000, 0, 0>>, <<899322, 0, 279, 1000000, 11071, 140679>>,
    <<899322, 0, 288, 1000000, 44010, 277895>>, <<899322, 0, 297, 1000000, 98007, 408270>>,
    <<899322, 0, 306, 1000000, 171735, 528594>>, <<899322, 0, 315, 1000000, 263379, 635903>>,
    <<899322, 0, 324, 1000000, 370686, 727556>>, <<899322, 0, 333, 1000000, 491012, 801295>>,
    <<899322, 0, 342, 1000000, 621396, 855302>>, <<899322, 0, 351, 1000000, 758626, 888249>>,
    <<19086807, 9998756, 0, 1000000, 19086807, 10898078>>, <<19086807, 9998756, 9, 1000000, 19230065, 10886974>>,
    <<19086807, 9998756, 18, 1000000, 19369764, 10853939>>, <<19086807, 9998756, 27, 1000000, 19502439, 10799794>>,
    <<19086807, 9998756, 36, 1000000, 19624800, 10725881>>, <<19086807, 9998756, 45, 1000000, 19733823, 10634036>>,
    <<19086807, 9998756, 54, 1000000, 19826818, 10526534>>, <<19086807, 9998756, 63, 1000000, 19901502, 10406037>>,
    <<19086807, 9998756, 72, 1000000, 19956052, 10275525>>, <<19086807, 9998756, 81, 1000000, 19989146, 10138221>>,
    <<19086807, 9998756, 90, 1000000, 19999996, 9997512>>, <<19086807, 9998756, 99, 1000000, 19988365, 9856863>>,
    <<19086807, 9998756, 108, 1000000, 19954567, 9719736>>, <<19086807, 9998756, 117, 1000000, 19899458, 9589499>>,
    <<19086807, 9998756, 126, 1000000, 19824415, 9469349>>, <<19086807, 9998756, 135, 1000000, 19731296, 9362232>>,
    <<19086807, 9998756, 144, 1000000, 19622397, 9270771>>, <<19086807, 9998756, 153, 1000000, 19500394, 9197205>>,
    <<19086807, 9998756, 162, 1000000, 19368279, 9143335>>, <<19086807, 9998756, 171, 1000000, 19229284, 9110477>>,
    <<19086807, 9998756, 180, 1000000, 19086807, 9099434>>, <<19086807, 9998756, 189, 1000000, 18944330, 9110477>>,
    <<19086807, 9998756, 198, 1000000, 18805335, 9143335>>, <<19086807, 9998756, 207, 1000000, 18673220, 9197205>>,
    <<19086807, 9998756, 216, 1000000, 18551217, 9270771>>, <<19086807, 9998756, 225, 1000000, 18442318, 9362232>>,
    <<19086807, 9998756, 234, 1000000, 18349199, 9469349>>, <<19086807, 9998756, 243, 1000000, 18274156, 9589499>>,
    <<19086807, 9998756, 252, 1000000, 18219047, 9719736>>, <<19086807, 9998756, 261, 1000000, 18185249, 9856863>>,
    <<19086807, 9998756, 270, 1000000, 18173618, 9997512>>, <<19086807, 9998756, 279, 1000000, 18184468, 10138221>>,
    <<19086807, 9998756, 288, 1000000, 18217562, 10275525>>, <<19086807, 9998756, 297, 1000000, 18272112, 10406037>>,
    <<19086807, 9998756, 306, 1000000, 18346796, 10526534>>, <<19086807, 9998756, 315, 1000000, 18439791, 10634036>>,
    <<19086807, 9998756, 324, 1000000, 18548814, 10725881>>, <<19086807, 9998756, 333, 1000000, 18671175, 10799794>>,
    <<19086807, 9998756, 342, 1000000, 18803850, 10853939>>, <<19086807, 9998756, 351, 1000000, 18943549, 10886974>>,
    <<19584366, 10801037, 0, 1000000, 19584366, 11700359>>, <<19584366, 10801037, 9, 1000000, 19728025, 11689253>>,
    <<19584366, 10801037, 18, 1000000, 19868113, 11656210>>, <<19584366, 10801037, 27, 1000000, 20001152, 11602053>>,
    <<19584366, 10801037, 36, 1000000, 20123843, 11528127>>, <<19584366, 10801037, 45, 1000000, 20233151, 11436266>>,
    <<19584366, 10801037, 54, 1000000, 20326380, 11328748>>, <<19584366, 10801037, 63, 1000000, 20401242, 11208237>>,
    <<19584366, 10801037, 72, 1000000, 20455909, 11077713>>, <<19584366, 10801037, 81, 1000000, 20489059, 10940402>>,
    <<19584366, 10801037, 90, 1000000, 20499905, 10799691>>, <<19584366, 10801037, 99, 1000000, 20488211, 10659045>>,
    <<19584366, 10801037, 108, 1000000, 20454297, 10521925>>, <<19584366, 10801037, 117, 1000000, 20399024, 10391699>>,
    <<19584366, 10801037, 126, 1000000, 20323773, 10271563>>, <<19584366, 10801037, 135, 1000000, 20230409, 10164462>>,
    <<19584366, 10801037, 144, 1000000, 20121235, 10073017>>, <<19584366, 10801037, 153, 1000000, 19998934, 9999466>>,
    <<19584366, 10801037, 162, 1000000, 19866501, 9945606>>, <<19584366, 10801037, 171, 1000000, 19727177, 9912756>>,
    <<19584366, 10801037, 180, 1000000, 19584366, 9901715>>, <<19584366, 10801037, 189, 1000000, 19441555, 9912756>>,
    <<19584366, 10801037, 198, 1000000, 19302231, 9945606>>, <<19584366, 10801037, 207, 1000000, 19169798, 9999466>>,
    <<19584366, 10801037, 216, 1000000, 19047497, 10073017>>, <<19584366, 10801037, 225, 1000000, 18938323, 10164462>>,
    <<19584366, 10801037, 234, 1000000, 18844959, 10271563>>, <<19584366, 10801037, 243, 1000000, 18769708, 10391699>>,
    <<19584366, 10801037, 252, 1000000, 18714435, 10521925>>, <<19584366, 10801037, 261, 1000000, 18680521, 10659045>>,
    <<19584366, 10801037, 270, 1000000, 18668827, 10799691>>, <<19584366, 10801037, 279, 1000000, 18679673, 10940402>>,
    <<19584366, 10801037, 288, 1000000, 18712823, 11077713>>, <<19584366, 10801037, 297, 1000000, 18767490, 11208237>>,
    <<19584366, 10801037, 306, 1000000, 18842352, 11328748>>, <<19584366, 10801037, 315, 1000000, 18935581, 11436266>>,
    <<19584366, 10801037, 324, 1000000, 19044889, 11528127>>, <<19584366, 10801037, 333, 1000000, 19167580, 11602053>>,
    <<19584366, 10801037, 342, 1000000, 19300619, 11656210>>, <<19584366, 10801037, 351, 1000000, 19440707, 11689253>>,
    <<19598657, 10808059, 1, 1000000, 19614685, 11707243>>, <<19598657, 10808059, 10, 1000000, 19758126, 11693676>>,
    <<19598657, 10808059, 19, 1000000, 19897604, 11658237>>, <<19598657, 10808059, 28, 1000000, 20029655, 11601808>>,
    <<19598657, 10808059, 37, 1000000, 20151007, 11525789>>, <<19598657, 10808059, 46, 1000000, 20258657, 11432068>>,
    <<19598657, 10808059, 55, 1000000, 20349952, 11322969>>, <<19598657, 10808059, 64, 1000000, 20422653, 11201193>>,
    <<19598657, 10808059, 73, 1000000, 20474986, 11069752>>, <<19598657, 10808059, 82, 1000000, 20505687, 10931894>>,
    <<19598657, 10808059, 91, 1000000, 20514030, 10791017>>, <<19598657, 10808059, 100, 1000000, 20499841, 10650594>>,
    <<19598657, 10808059, 109, 1000000, 20463500, 10514076>>, <<19598657, 10808059, 118, 1000000, 20405928, 10384818>>,
    <<19598657, 10808059, 127, 1000000, 20328562, 10265990>>, <<19598657, 10808059, 136, 1000000, 20233319, 10160505>>,
    <<19598657, 10808059, 145, 1000000, 20122545, 10070946>>, <<19598657, 10808059, 154, 1000000, 19998962, 9999502>>,
    <<19598657, 10808059, 163, 1000000, 19865597, 9947922>>, <<19598657, 10808059, 172, 1000000, 19725712, 9917464>>,
    <<19598657, 10808059, 181, 1000000, 19582725, 9908874>>, <<19598657, 10808059, 190, 1000000, 19440126, 9922361>>,
    <<19598657, 10808059, 199, 1000000, 19301399, 9957595>>, <<19598657, 10808059, 208, 1000000, 19169933, 10013716>>,
    <<19598657, 10808059, 217, 1000000, 19048945, 10089353>>, <<19598657, 10808059, 226, 1000000, 18941399, 10182655>>,
    <<19598657, 10808059, 235, 1000000, 18849940, 10291341>>, <<19598657, 10808059, 244, 1000000, 18776823, 10412748>>,
    <<19598657, 10808059, 253, 1000000, 18723862, 10543902>>, <<19598657, 10808059, 262, 1000000, 18692383, 10681582>>,
    <<19598657, 10808059, 271, 1000000, 18683188, 10822407>>, <<19598657, 10808059, 280, 1000000, 18696535, 10962911>>,
    <<19598657, 10808059, 289, 1000000, 18732125, 11099633>>, <<19598657, 10808059, 298, 1000000, 18789111, 11229199>>,
    <<19598657, 10808059, 307, 1000000, 18866115, 11348409>>, <<19598657, 10808059, 316, 1000000, 18961254, 11454312>>,
    <<19598657, 10808059, 325, 1000000, 19072191, 11544286>>, <<19598657, 10808059, 334, 1000000, 19196190, 11616098>>,
    <<19598657, 10808059, 343, 1000000, 19330183, 11667966>>, <<19598657, 10808059, 352, 1000000, 19470846, 11698602>>,
    <<19999087, 10000000, 0, 1000, 19999087, 10000899>>, <<19999087, 10000000, 9, 1000, 19999230, 10000888>>,
    <<19999087, 10000000, 18, 1000, 19999369, 10000855>>, <<19999087, 10000000, 27, 1000, 19999502, 10000801>>,
    <<19999087, 10000000, 36, 1000, 19999624, 10000728>>, <<19999087, 10000000, 45, 1000, 19999733, 10000636>>,
    <<19999087, 10000000, 54, 1000, 19999826, 10000529>>, <<19999087, 10000000, 63, 1000, 19999901, 10000408>>,
    <<19999087, 10000000, 72, 1000, 19999956, 10000278>>, <<19999087, 10000000, 81, 1000, 19999989, 10000141>>,
    <<19999087, 10000000, 90, 1000, 20000000, 10000000>>, <<19999087, 10000000, 99, 1000, 19999989, 9999859>>,
    <<19999087, 10000000, 108, 1000, 19999955, 9999722>>, <<19999087, 10000000, 117, 1000, 19999901, 9999592>>,
    <<19999087, 10000000, 126, 1000, 19999826, 9999471>>, <<19999087, 10000000, 135, 1000, 19999733, 9999364>>,
    <<19999087, 10000000, 144, 1000, 19999624, 9999272>>, <<19999087, 10000000, 153, 1000, 19999502, 9999199>>,
    <<19999087, 10000000, 162, 1000, 19999369, 9999145>>, <<19999087, 10000000, 171, 1000, 19999230, 9999112>>,
    <<19999087, 10000000, 180, 1000, 19999087, 9999101>>, <<19999087, 10000000, 189, 1000, 19998944, 9999112>>,
    <<19999087, 10000000, 198, 1000, 19998805, 9999145>>, <<19999087, 10000000, 207, 1000, 19998672, 9999199>>,
    <<19999087, 10000000, 216, 1000, 19998550, 9999272>>, <<19999087, 10000000, 225, 1000, 19998441, 9999364>>,
    <<19999087, 10000000, 234, 1000, 19998348, 9999471>>, <<19999087, 10000000, 243, 1000, 19998273, 9999592>>,
    <<19999087, 10000000, 252, 1000, 19998219, 9999722>>, <<19999087, 10000000, 261, 1000, 19998185, 9999859>>,
    <<19999087, 10000000, 270, 1000, 19998174, 10000000>>, <<19999087, 10000000, 279, 1000, 19998185, 10000141>>,
    <<19999087, 10000000, 288, 1000, 19998218, 10000278>>, <<19999087, 10000000, 297, 1000, 19998273, 10000408>>,
    <<19999087, 10000000, 306, 1000, 19998348, 10000529>>, <<19999087, 10000000, 315, 1000, 19998441, 10000636>>,
    <<19999087, 10000000, 324, 1000, 19998550, 10000728>>, <<19999087, 10000000, 333, 1000, 19998672, 10000801>>,
    <<19999087, 10000000, 342, 1000, 19998805, 10000855>>, <<19999087, 10000000, 351, 1000, 19998944, 10000888>>,
    <<19999585, 10000801, 0, 1000, 19999585, 10001700>>, <<19999585, 10000801, 9, 1000, 19999728, 10001689>>,
    <<19999585, 10000801, 18, 1000, 19999867, 10001656>>, <<19999585, 10000801, 27, 1000, 20000000, 10001602>>,
    <<19999585, 10000801, 36, 1000, 20000122, 10001529>>, <<19999585, 10000801, 45, 1000, 20000231, 10001437>>,
    <<19999585, 10000801, 54, 1000, 20000324, 10001330>>, <<19999585, 10000801, 63, 1000, 20000399, 10001209>>,
    <<19999585, 10000801, 72, 1000, 20000454, 10001079>>, <<19999585, 10000801, 81, 1000, 20000487, 10000942>>,
    <<19999585, 10000801, 90, 1000, 20000498, 10000801>>, <<19999585, 10000801, 99, 1000, 20000487, 10000660>>,
    <<19999585, 10000801, 108, 1000, 20000454, 10000523>>, <<19999585, 10000801, 117, 1000, 20000399, 10000393>>,
    <<19999585, 10000801, 126, 1000, 20000324, 10000272>>, <<19999585, 10000801, 135, 1000, 20000231, 10000165>>,
    <<19999585, 10000801, 144, 1000, 20000122, 10000073>>, <<19999585, 10000801, 153, 1000, 20000000, 10000000>>,
    <<19999585, 10000801, 162, 1000, 19999867, 9999946>>, <<19999585, 10000801, 171, 1000, 19999728, 9999913>>,
    <<19999585, 10000801, 180, 1000, 19999585, 9999902>>, <<19999585, 10000801, 189, 1000, 19999442, 9999913>>,
    <<19999585, 10000801, 198, 1000, 19999303, 9999946>>, <<19999585, 10000801, 207, 1000, 19999170, 10000000>>,
    <<19999585, 10000801, 216, 1000, 19999048, 10000073>>, <<19999585, 10000801, 225, 1000, 19998939, 10000165>>,
    <<19999585, 10000801, 234, 1000, 19998846, 10000272>>, <<19999585, 10000801, 243, 1000, 19998771, 10000393>>,
    <<19999585, 10000801, 252, 1000, 19998716, 10000523>>, <<19999585, 10000801, 261, 1000, 19998683, 10000660>>,
    <<19999585, 10000801, 270, 1000, 19998672, 10000801>>, <<19999585, 10000801, 279, 1000, 19998683, 10000942>>,
    <<19999585, 10000801, 288, 1000, 19998716, 10001079>>, <<19999585, 10000801, 297, 1000, 19998771, 10001209>>,
    <<19999585, 10000801, 306, 1000, 19998846, 10001330>>, <<19999585, 10000801, 315, 1000, 19998939, 10001437>>,
    <<19999585, 10000801, 324, 1000, 19999048, 10001529>>, <<19999585, 10000801, 333, 1000, 19999170, 10001602>>,
    <<19999585, 10000801, 342, 1000, 19999303, 10001656>>, <<19999585, 10000801, 351, 1000, 19999442, 10001689>>,
    <<19999600, 10000808, 1, 1000, 19999616, 10001707>>, <<19999600, 10000808, 10, 1000, 19999759, 10001694>>,
    <<19999600, 10000808, 19, 1000, 19999897, 10001658>>, <<19999600, 10000808, 28, 1000, 20000029, 10001602>>,
    <<19999600, 10000808, 37, 1000, 20000150, 10001526>>, <<19999600, 10000808, 46, 1000, 20000257, 10001433>>,
    <<19999600, 10000808, 55, 1000, 20000348, 10001324>>, <<19999600, 10000808, 64, 1000, 20000421, 10001202>>,
    <<19999600, 10000808, 73, 1000, 20000473, 10001071>>, <<19999600, 10000808, 82, 1000, 20000504, 10000933>>,
    <<19999600, 10000808, 91, 1000, 20000513, 10000792>>, <<19999600, 10000808, 100, 1000, 20000499, 10000652>>,
    <<19999600, 10000808, 109, 1000, 20000463, 10000515>>, <<19999600, 10000808, 118, 1000, 20000406, 10000386>>,
    <<19999600, 10000808, 127, 1000, 20000329, 10000267>>, <<19999600, 10000808, 136, 1000, 20000234, 10000161>>,
    <<19999600, 10000808, 145, 1000, 20000124, 10000071>>, <<19999600, 10000808, 154, 1000, 20000000, 10000000>>,
    <<19999600, 10000808, 163, 1000, 19999867, 9999948>>, <<19999600, 10000808, 172, 1000, 19999727, 9999917>>,
    <<19999600, 10000808, 181, 1000, 19999584, 9999909>>, <<19999600, 10000808, 190, 1000, 19999441, 9999922>>,
    <<19999600, 10000808, 199, 1000, 19999303, 9999958>>, <<19999600, 10000808, 208, 1000, 19999171, 10000014>>,
    <<19999600, 10000808, 217, 1000, 19999050, 10000090>>, <<19999600, 10000808, 226, 1000, 19998943, 10000183>>,
    <<19999600, 10000808, 235, 1000, 19998852, 10000292>>, <<19999600, 10000808, 244, 1000, 19998779, 10000414>>,
    <<19999600, 10000808, 253, 1000, 19998727, 10000545>>, <<19999600, 10000808, 262, 1000, 19998696, 10000683>>,
    <<19999600, 10000808, 271, 1000, 19998687, 10000824>>, <<19999600, 10000808, 280, 1000, 19998701, 10000964>>,
    <<19999600, 10000808, 289, 1000, 19998737, 10001101>>, <<19999600, 10000808, 298, 1000, 19998794, 10001230>>,
    <<19999600, 10000808, 307, 1000, 19998871, 10001349>>, <<19999600, 10000808, 316, 1000, 19998966, 10001455>>,
    <<19999600, 10000808, 325, 1000, 19999076, 10001545>>, <<19999600, 10000808, 334, 1000, 19999200, 10001616>>,
    <<19999600, 10000808, 343, 1000, 19999333, 10001668>>, <<19999600, 10000808, 352, 1000, 19999473, 10001699>>,
    <<20000000, 10000000, 0, 0, 20000000, 10000000>>, <<20000000, 10000000, 0, 105, 20000000, 10000094>>,
    <<20000000, 10000000, 0, 504, 20000000, 10000453>>, <<20000000, 10000000, 0, 1000, 20000000, 10000899>>,
    <<20000000, 10000000, 0, 1000000, 20000000, 10899322>>, <<20000000, 10000000, 0, 250000000, -160000000, -54830401>>,
    <<20000000, 10000000, 1, 0, 20000000, 10000000>>, <<20000000, 10000000, 1, 1000, 20000016, 10000899>>,
    <<20000000, 10000000, 1, 1000000, 20015983, 10899184>>, <<20000000, 10000000, 9, 0, 20000000, 10000000>>,
    <<20000000, 10000000, 9, 105, 20000015, 10000093>>, <<20000000, 10000000, 9, 504, 20000072, 10000448>>,
    <<20000000, 10000000, 9, 1000, 20000143, 10000888>>, <<20000000, 10000000, 9, 1000000, 20143258, 10888218>>,
    <<20000000, 10000000, 9, 250000000, -149188243, -53988856>>, <<20000000, 10000000, 10, 0, 20000000, 10000000>>,
    <<20000000, 10000000, 10, 1000, 20000159, 10000886>>, <<20000000, 10000000, 10, 1000000, 20159021, 10885620>>,
    <<20000000, 10000000, 18, 0, 20000000, 10000000>>, <<20000000, 10000000, 18, 105, 20000030, 10000090>>,
    <<20000000, 10000000, 18, 504, 20000142, 10000431>>, <<20000000, 10000000, 18, 1000, 20000282, 10000855>>,
    <<20000000, 10000000, 18, 1000000, 20282959, 10855183>>, <<20000000, 10000000, 18, 250000000, -139477293, -51579317>>,
    <<20000000, 10000000, 19, 0, 20000000, 10000000>>, <<20000000, 10000000, 19, 1000, 20000297, 10000850>>,
    <<20000000, 10000000, 19, 1000000, 20298109, 10850189>>, <<20000000, 10000000, 27, 0, 20000000, 10000000>>,
    <<20000000, 10000000, 27, 105, 20000044, 10000084>>, <<20000000, 10000000, 27, 504, 20000209, 10000404>>,
    <<20000000, 10000000, 27, 1000, 20000415, 10000801>>, <<20000000, 10000000, 27, 1000000, 20415634, 10801037>>,
    <<20000000, 10000000, 27, 250000000, -131493881, -47882965>>, <<20000000, 10000000, 28, 0, 20000000, 10000000>>,
    <<20000000, 10000000, 28, 1000, 20000429, 10000794>>, <<20000000, 10000000, 28, 1000000, 20429797, 10793772>>,
    <<20000000, 10000000, 36, 0, 20000000, 10000000>>, <<20000000, 10000000, 36, 105, 20000056, 10000076>>,
    <<20000000, 10000000, 36, 504, 20000271, 10000367>>, <<20000000, 10000000, 36, 1000, 20000537, 10000728>>,
    <<20000000, 10000000, 36, 1000000, 20537996, 10727125>>, <<20000000, 10000000, 36, 250000000, -125341063, -43223903>>,
    <<20000000, 10000000, 37, 0, 20000000, 10000000>>, <<20000000, 10000000, 37, 1000, 20000550, 10000718>>,
    <<20000000, 10000000, 37, 1000000, 20550820, 10717768>>, <<20000000, 10000000, 45, 0, 20000000, 10000000>>,
    <<20000000, 10000000, 45, 105, 20000068, 10000067>>, <<20000000, 10000000, 45, 504, 20000325, 10000321>>,
    <<20000000, 10000000, 45, 1000, 20000646, 10000636>>, <<20000000, 10000000, 45, 1000000, 20647018, 10635280>>,
    <<20000000, 10000000, 45, 250000000, -120828106, -37886184>>, <<20000000, 10000000, 46, 0, 20000000, 10000000>>,
    <<20000000, 10000000, 46, 1000, 20000657, 10000625>>, <<20000000, 10000000, 46, 1000000, 20658188, 10624063>>,
    <<20000000, 10000000, 54, 0, 20000000, 10000000>>, <<20000000, 10000000, 54, 105, 20000078, 10000056>>,
    <<20000000, 10000000, 54, 504, 20000372, 10000266>>, <<20000000, 10000000, 54, 1000, 20000739, 10000529>>,
    <<20000000, 10000000, 54, 1000000, 20740014, 10527778>>, <<20000000, 10000000, 54, 250000000, -117683614, -32089950>>,
    <<20000000, 10000000, 55, 0, 20000000, 10000000>>, <<20000000, 10000000, 55, 1000, 20000748, 10000516>>,
    <<20000000, 10000000, 55, 1000000, 20749254, 10514979>>, <<20000000, 10000000, 63, 0, 20000000, 10000000>>,
    <<20000000, 10000000, 63, 105, 20000085, 10000043>>, <<20000000, 10000000, 63, 504, 20000410, 10000206>>,
    <<20000000, 10000000, 63, 1000, 20000814, 10000408>>, <<20000000, 10000000, 63, 1000000, 20814699, 10407281>>,
    <<20000000, 10000000, 63, 250000000, -115661465, -25999053>>, <<20000000, 10000000, 64, 0, 20000000, 10000000>>,
    <<20000000, 10000000, 64, 1000, 20000821, 10000394>>, <<20000000, 10000000, 64, 1000000, 20821783, 10393217>>,
    <<20000000, 10000000, 72, 0, 20000000, 10000000>>, <<20000000, 10000000, 72, 105, 20000091, 10000029>>,
    <<20000000, 10000000, 72, 504, 20000438, 10000140>>, <<20000000, 10000000, 72, 1000, 20000869, 10000278>>,
    <<20000000, 10000000, 72, 1000000, 20869248, 10276769>>, <<20000000, 10000000, 72, 250000000, -114573290, -19736880>>,
    <<20000000, 10000000, 73, 0, 20000000, 10000000>>, <<20000000, 10000000, 73, 1000, 20000873, 10000263>>,
    <<20000000, 10000000, 73, 1000000, 20874004, 10261787>>, <<20000000, 10000000, 81, 0, 20000000, 10000000>>,
    <<20000000, 10000000, 81, 105, 20000095, 10000015>>, <<20000000, 10000000, 81, 504, 20000455, 10000071>>,
    <<20000000, 10000000, 81, 1000, 20000902, 10000141>>, <<20000000, 10000000, 81, 1000000, 20902342, 10139465>>,
    <<20000000, 10000000, 81, 250000000, -114289480, -13400899>>, <<20000000, 10000000, 82, 0, 20000000, 10000000>>,
    <<20000000, 10000000, 82, 1000, 20000904, 10000125>>, <<20000000, 10000000, 82, 1000000, 20904656, 10123935>>,
    <<20000000, 10000000, 90, 0, 20000000, 10000000>>, <<20000000, 10000000, 90, 105, 20000096, 10000000>>,
    <<20000000, 10000000, 90, 504, 20000460, 10000000>>, <<20000000, 10000000, 90, 1000, 20000913, 10000000>>,
    <<20000000, 10000000, 90, 1000000, 20913193, 9998756>>, <<20000000, 10000000, 90, 250000000, -114731038, -7073975>>,
    <<20000000, 10000000, 91, 0, 20000000, 10000000>>, <<20000000, 10000000, 91, 1000, 20000913, 9999984>>,
    <<20000000, 10000000, 91, 1000000, 20913010, 9983061>>, <<20000000, 10000000, 99, 0, 20000000, 10000000>>,
    <<20000000, 10000000, 99, 105, 20000095, 9999985>>, <<20000000, 10000000, 99, 504, 20000455, 9999929>>,
    <<20000000, 10000000, 99, 1000, 20000902, 9999859>>, <<20000000, 10000000, 99, 1000000, 20901561, 9858107>>,
    <<20000000, 10000000, 99, 250000000, -115860767, -833012>>, <<20000000, 10000000, 100, 0, 20000000, 10000000>>,
    <<20000000, 10000000, 100, 1000, 20000899, 9999844>>, <<20000000, 10000000, 100, 1000000, 20898890, 9842634>>,
    <<20000000, 10000000, 108, 0, 20000000, 10000000>>, <<20000000, 10000000, 108, 105, 20000091, 9999971>>,
    <<20000000, 10000000, 108, 504, 20000438, 9999860>>, <<20000000, 10000000, 108, 1000, 20000868, 9999722>>,
    <<20000000, 10000000, 108, 1000000, 20867763, 9720980>>, <<20000000, 10000000, 108, 250000000, -117675922, 5244139>>,
    <<20000000, 10000000, 109, 0, 20000000, 10000000>>, <<20000000, 10000000, 109, 1000, 20000863, 9999707>>,
    <<20000000, 10000000, 109, 1000000, 20862671, 9706109>>, <<20000000, 10000000, 117, 0, 20000000, 10000000>>,
    <<20000000, 10000000, 117, 105, 20000085, 9999957>>, <<20000000, 10000000, 117, 504, 20000410, 9999794>>,
    <<20000000, 10000000, 117, 1000, 20000814, 9999592>>, <<20000000, 10000000, 117, 1000000, 20812654, 9590743>>,
    <<20000000, 10000000, 117, 250000000, -120201861, 11072727>>, <<20000000, 10000000, 118, 0, 20000000, 10000000>>,
    <<20000000, 10000000, 118, 1000, 20000806, 9999578>>, <<20000000, 10000000, 118, 1000000, 20805270, 9576839>>,
    <<20000000, 10000000, 126, 0, 20000000, 10000000>>, <<20000000, 10000000, 126, 105, 20000078, 9999944>>,
    <<20000000, 10000000, 126, 504, 20000372, 9999734>>, <<20000000, 10000000, 126, 1000, 20000739, 9999471>>,
    <<20000000, 10000000, 126, 1000000, 20737610, 9470593>>, <<20000000, 10000000, 126, 250000000, -123484944, 16555772>>,
    <<20000000, 10000000, 127, 0, 20000000, 10000000>>, <<20000000, 10000000, 127, 1000, 20000729, 9999459>>,
    <<20000000, 10000000, 127, 1000000, 20728118, 9457996>>, <<20000000, 10000000, 135, 0, 20000000, 10000000>>,
    <<20000000, 10000000, 135, 105, 20000068, 9999933>>, <<20000000, 10000000, 135, 504, 20000325, 9999679>>,
    <<20000000, 10000000, 135, 1000, 20000646, 9999364>>, <<20000000, 10000000, 135, 1000000, 20644491, 9363476>>,
    <<20000000, 10000000, 135, 250000000, -127581869, 21579598>>, <<20000000, 10000000, 136, 0, 20000000, 10000000>>,
    <<20000000, 10000000, 136, 1000, 20000634, 9999353>>, <<20000000, 10000000, 136, 1000000, 20633124, 9352496>>,
    <<20000000, 10000000, 144, 0, 20000000, 10000000>>, <<20000000, 10000000, 144, 105, 20000056, 9999924>>,
    <<20000000, 10000000, 144, 504, 20000271, 9999633>>, <<20000000, 10000000, 144, 1000, 20000537, 9999272>>,
    <<20000000, 10000000, 144, 1000000, 20535592, 9272015>>, <<20000000, 10000000, 144, 250000000, -132541812, 26011383>>,
    <<20000000, 10000000, 145, 0, 20000000, 10000000>>, <<20000000, 10000000, 145, 1000, 20000524, 9999263>>,
    <<20000000, 10000000, 145, 1000000, 20522631, 9262920>>, <<20000000, 10000000, 153, 0, 20000000, 10000000>>,
    <<20000000, 10000000, 153, 105, 20000044, 9999916>>, <<20000000, 10000000, 153, 504, 20000209, 9999596>>,
    <<20000000, 10000000, 153, 1000, 20000415, 9999199>>, <<20000000, 10000000, 153, 1000000, 20413589, 9198449>>,
    <<20000000, 10000000, 153, 250000000, -138378221, 29701079>>, <<20000000, 10000000, 154, 0, 20000000, 10000000>>,
    <<20000000, 10000000, 154, 1000, 20000400, 9999192>>, <<20000000, 10000000, 154, 1000000, 20399351, 9191463>>,
    <<20000000, 10000000, 162, 0, 20000000, 10000000>>, <<20000000, 10000000, 162, 105, 20000030, 9999910>>,
    <<20000000, 10000000, 162, 504, 20000142, 9999569>>, <<20000000, 10000000, 162, 1000, 20000282, 9999145>>,
    <<20000000, 10000000, 162, 1000000, 20281473, 9144579>>, <<20000000, 10000000, 162, 250000000, -145031450, 32491042>>,
    <<20000000, 10000000, 163, 0, 20000000, 10000000>>, <<20000000, 10000000, 163, 1000, 20000267, 9999140>>,
    <<20000000, 10000000, 163, 1000000, 20266308, 9139871>>, <<20000000, 10000000, 171, 0, 20000000, 10000000>>,
    <<20000000, 10000000, 171, 105, 20000015, 9999907>>, <<20000000, 10000000, 171, 504, 20000072, 9999552>>,
    <<20000000, 10000000, 171, 1000, 20000143, 9999112>>, <<20000000, 10000000, 171, 1000000, 20142477, 9111721>>,
    <<20000000, 10000000, 171, 250000000, -152333723, 34235880>>, <<20000000, 10000000, 172, 0, 20000000, 10000000>>,
    <<20000000, 10000000, 172, 1000, 20000127, 9999109>>, <<20000000, 10000000, 172, 1000000, 20126755, 9109407>>,
    <<20000000, 10000000, 180, 0, 20000000, 10000000>>, <<20000000, 10000000, 180, 105, 20000000, 9999906>>,
    <<20000000, 10000000, 180, 504, 20000000, 9999547>>, <<20000000, 10000000, 180, 1000, 20000000, 9999101>>,
    <<20000000, 10000000, 180, 1000000, 20000000, 9100678>>, <<20000000, 10000000, 180, 250000000, -160000000, 34830401>>,
    <<20000000, 10000000, 181, 0, 20000000, 10000000>>, <<20000000, 10000000, 181, 1000, 19999984, 9999101>>,
    <<20000000, 10000000, 181, 1000000, 19984105, 9100815>>, <<20000000, 10000000, 189, 0, 20000000, 10000000>>,
    <<20000000, 10000000, 189, 105, 19999985, 9999907>>, <<20000000, 10000000, 189, 504, 19999928, 9999552>>,
    <<20000000, 10000000, 189, 1000, 19999857, 9999112>>, <<20000000, 10000000, 189, 1000000, 19857523, 9111721>>,
    <<20000000, 10000000, 189, 250000000, -167666277, 34235880>>, <<20000000, 10000000, 190, 0, 20000000, 10000000>>,
    <<20000000, 10000000, 190, 1000, 19999841, 9999114>>, <<20000000, 10000000, 190, 1000000, 19841844, 9114305>>,
    <<20000000, 10000000, 198, 0, 20000000, 10000000>>, <<20000000, 10000000, 198, 105, 19999970, 9999910>>,
    <<20000000, 10000000, 198, 504, 19999858, 9999569>>, <<20000000, 10000000, 198, 1000, 19999718, 9999145>>,
    <<20000000, 10000000, 198, 1000000, 19718527, 9144579>>, <<20000000, 10000000, 198, 250000000, -174968550, 32491042>>,
    <<20000000, 10000000, 199, 0, 20000000, 10000000>>, <<20000000, 10000000, 199, 1000, 19999703, 9999150>>,
    <<20000000, 10000000, 199, 1000000, 19703447, 9149547>>, <<20000000, 10000000, 207, 0, 20000000, 10000000>>,
    <<20000000, 10000000, 207, 105, 19999956, 9999916>>, <<20000000, 10000000, 207, 504, 19999791, 9999596>>,
    <<20000000, 10000000, 207, 1000, 19999585, 9999199>>, <<20000000, 10000000, 207, 1000000, 19586411, 9198449>>,
    <<20000000, 10000000, 207, 250000000, 178378221, 29701079>>, <<20000000, 10000000, 208, 0, 20000000, 10000000>>,
    <<20000000, 10000000, 208, 1000, 19999571, 9999206>>, <<20000000, 10000000, 208, 1000000, 19572299, 9205680>>,
    <<20000000, 10000000, 216, 0, 20000000, 10000000>>, <<20000000, 10000000, 216, 105, 19999944, 9999924>>,
    <<20000000, 10000000, 216, 504, 19999729, 9999633>>, <<20000000, 10000000, 216, 1000, 19999463, 9999272>>,
    <<20000000, 10000000, 216, 1000000, 19464408, 9272015>>, <<20000000, 10000000, 216, 250000000, 172541812, 26011383>>,
    <<20000000, 10000000, 217, 0, 20000000, 10000000>>, <<20000000, 10000000, 217, 1000, 19999450, 9999282>>,
    <<20000000, 10000000, 217, 1000000, 19451609, 9281331>>, <<20000000, 10000000, 225, 0, 20000000, 10000000>>,
    <<20000000, 10000000, 225, 105, 19999932, 9999933>>, <<20000000, 10000000, 225, 504, 19999675, 9999679>>,
    <<20000000, 10000000, 225, 1000, 19999354, 9999364>>, <<20000000, 10000000, 225, 1000000, 19355509, 9363476>>,
    <<20000000, 10000000, 225, 250000000, 167581869, 21579598>>, <<20000000, 10000000, 226, 0, 20000000, 10000000>>,
    <<20000000, 10000000, 226, 1000, 19999343, 9999375>>, <<20000000, 10000000, 226, 1000000, 19344338, 9374649>>,
    <<20000000, 10000000, 234, 0, 20000000, 10000000>>, <<20000000, 10000000, 234, 105, 19999922, 9999944>>,
    <<20000000, 10000000, 234, 504, 19999628, 9999734>>, <<20000000, 10000000, 234, 1000, 19999261, 9999471>>,
    <<20000000, 10000000, 234, 1000000, 19262390, 9470593>>, <<20000000, 10000000, 234, 250000000, 163484944, 16555772>>,
    <<20000000, 10000000, 235, 0, 20000000, 10000000>>, <<20000000, 10000000, 235, 1000, 19999252, 9999484>>,
    <<20000000, 10000000, 235, 1000000, 19253121, 9483351>>, <<20000000, 10000000, 243, 0, 20000000, 10000000>>,
    <<20000000, 10000000, 243, 105, 19999915, 9999957>>, <<20000000, 10000000, 243, 504, 19999590, 9999794>>,
    <<20000000, 10000000, 243, 1000, 19999186, 9999592>>, <<20000000, 10000000, 243, 1000000, 19187346, 9590743>>,
    <<20000000, 10000000, 243, 250000000, 160201861, 11072727>>, <<20000000, 10000000, 244, 0, 20000000, 10000000>>,
    <<20000000, 10000000, 244, 1000, 19999179, 9999606>>, <<20000000, 10000000, 244, 1000000, 19180209, 9604772>>,
    <<20000000, 10000000, 252, 0, 20000000, 10000000>>, <<20000000, 10000000, 252, 105, 19999909, 9999971>>,
    <<20000000, 10000000, 252, 504, 19999562, 9999860>>, <<20000000, 10000000, 252, 1000, 19999132, 9999722>>,
    <<20000000, 10000000, 252, 1000000, 19132237, 9720980>>, <<20000000, 10000000, 252, 250000000, 157675922, 5244139>>,
    <<20000000, 10000000, 253, 0, 20000000, 10000000>>, <<20000000, 10000000, 253, 1000, 19999127, 9999737>>,
    <<20000000, 10000000, 253, 1000000, 19127409, 9735936>>, <<20000000, 10000000, 261, 0, 20000000, 10000000>>,
    <<20000000, 10000000, 261, 105, 19999905, 9999985>>, <<20000000, 10000000, 261, 504, 19999545, 9999929>>,
    <<20000000, 10000000, 261, 1000, 19999098, 9999859>>, <<20000000, 10000000, 261, 1000000, 19098439, 9858107>>,
    <<20000000, 10000000, 261, 250000000, 155860767, -833012>>, <<20000000, 10000000, 262, 0, 20000000, 10000000>>,
    <<20000000, 10000000, 262, 1000, 19999096, 9999875>>, <<20000000, 10000000, 262, 1000000, 19096041, 9873624>>,
    <<20000000, 10000000, 270, 0, 20000000, 10000000>>, <<20000000, 10000000, 270, 105, 19999904, 10000000>>,
    <<20000000, 10000000, 270, 504, 19999540, 10000000>>, <<20000000, 10000000, 270, 1000, 19999087, 10000000>>,
    <<20000000, 10000000, 270, 1000000, 19086807, 9998756>>, <<20000000, 10000000, 270, 250000000, 154731038, -7073975>>,
    <<20000000, 10000000, 271, 0, 20000000, 10000000>>, <<20000000, 10000000, 271, 1000, 19999087, 10000016>>,
    <<20000000, 10000000, 271, 1000000, 19086902, 10014451>>, <<20000000, 10000000, 279, 0, 20000000, 10000000>>,
    <<20000000, 10000000, 279, 105, 19999905, 10000015>>, <<20000000, 10000000, 279, 504, 19999545, 10000071>>,
    <<20000000, 10000000, 279, 1000, 19999098, 10000141>>, <<20000000, 10000000, 279, 1000000, 19097658, 10139465>>,
    <<20000000, 10000000, 279, 250000000, 154289480, -13400899>>, <<20000000, 10000000, 280, 0, 20000000, 10000000>>,
    <<20000000, 10000000, 280, 1000, 19999101, 10000156>>, <<20000000, 10000000, 280, 1000000, 19100246, 10154952>>,
    <<20000000, 10000000, 288, 0, 20000000, 10000000>>, <<20000000, 10000000, 288, 105, 19999909, 10000029>>,
    <<20000000, 10000000, 288, 504, 19999562, 10000140>>, <<20000000, 10000000, 288, 1000, 19999131, 10000278>>,
    <<20000000, 10000000, 288, 1000000, 19130752, 10276769>>, <<20000000, 10000000, 288, 250000000, 154573290, -19736880>>,
    <<20000000, 10000000, 289, 0, 20000000, 10000000>>, <<20000000, 10000000, 289, 1000, 19999137, 10000293>>,
    <<20000000, 10000000, 289, 1000000, 19135773, 10291666>>, <<20000000, 10000000, 297, 0, 20000000, 10000000>>,
    <<20000000, 10000000, 297, 105, 19999915, 10000043>>, <<20000000, 10000000, 297, 504, 19999590, 10000206>>,
    <<20000000, 10000000, 297, 1000, 19999186, 10000408>>, <<20000000, 10000000, 297, 1000000, 19185301, 10407281>>,
    <<20000000, 10000000, 297, 250000000, 155661465, -25999053>>, <<20000000, 10000000, 298, 0, 20000000, 10000000>>,
    <<20000000, 10000000, 298, 1000, 19999194, 10000422>>, <<20000000, 10000000, 298, 1000000, 19192635, 10421221>>,
    <<20000000, 10000000, 306, 0, 20000000, 10000000>>, <<20000000, 10000000, 306, 105, 19999922, 10000056>>,
    <<20000000, 10000000, 306, 504, 19999628, 10000266>>, <<20000000, 10000000, 306, 1000, 19999261, 10000529>>,
    <<20000000, 10000000, 306, 1000000, 19259986, 10527778>>, <<20000000, 10000000, 306, 250000000, 157683614, -32089950>>,
    <<20000000, 10000000, 307, 0, 20000000, 10000000>>, <<20000000, 10000000, 307, 1000, 19999271, 10000541>>,
    <<20000000, 10000000, 307, 1000000, 19269453, 10540416>>, <<20000000, 10000000, 315, 0, 20000000, 10000000>>,
    <<20000000, 10000000, 315, 105, 19999932, 10000067>>, <<20000000, 10000000, 315, 504, 19999675, 10000321>>,
    <<20000000, 10000000, 315, 1000, 19999354, 10000636>>, <<20000000, 10000000, 315, 1000000, 19352982, 10635280>>,
    <<20000000, 10000000, 315, 250000000, 160828106, -37886184>>, <<20000000, 10000000, 316, 0, 20000000, 10000000>>,
    <<20000000, 10000000, 316, 1000, 19999366, 10000647>>, <<20000000, 10000000, 316, 1000000, 19364350, 10646303>>,
    <<20000000, 10000000, 324, 0, 20000000, 10000000>>, <<20000000, 10000000, 324, 105, 19999944, 10000076>>,
    <<20000000, 10000000, 324, 504, 19999729, 10000367>>, <<20000000, 10000000, 324, 1000, 19999463, 10000728>>,
    <<20000000, 10000000, 324, 1000000, 19462004, 10727125>>, <<20000000, 10000000, 324, 250000000, 165341063, -43223903>>,
    <<20000000, 10000000, 325, 0, 20000000, 10000000>>, <<20000000, 10000000, 325, 1000, 19999476, 10000737>>,
    <<20000000, 10000000, 325, 1000000, 19474994, 10736261>>, <<20000000, 10000000, 333, 0, 20000000, 10000000>>,
    <<20000000, 10000000, 333, 105, 19999956, 10000084>>, <<20000000, 10000000, 333, 504, 19999791, 10000404>>,
    <<20000000, 10000000, 333, 1000, 19999585, 10000801>>, <<20000000, 10000000, 333, 1000000, 19584366, 10801037>>,
    <<20000000, 10000000, 333, 250000000, 171493881, -47882965>>, <<20000000, 10000000, 334, 0, 20000000, 10000000>>,
    <<20000000, 10000000, 334, 1000, 19999600, 10000808>>, <<20000000, 10000000, 334, 1000000, 19598657, 10808059>>,
    <<20000000, 10000000, 342, 0, 20000000, 10000000>>, <<20000000, 10000000, 342, 105, 19999970, 10000090>>,
    <<20000000, 10000000, 342, 504, 19999858, 10000431>>, <<20000000, 10000000, 342, 1000, 19999718, 10000855>>,
    <<20000000, 10000000, 342, 1000000, 19717041, 10855183>>, <<20000000, 10000000, 342, 250000000, 179477293, -51579317>>,
    <<20000000, 10000000, 343, 0, 20000000, 10000000>>, <<20000000, 10000000, 343, 1000, 19999733, 10000860>>,
    <<20000000, 10000000, 343, 1000000, 19732279, 10859916>>, <<20000000, 10000000, 351, 0, 20000000, 10000000>>,
    <<20000000, 10000000, 351, 105, 19999985, 10000093>>, <<20000000, 10000000, 351, 504, 19999928, 10000448>>,
    <<20000000, 10000000, 351, 1000, 19999857, 10000888>>, <<20000000, 10000000, 351, 1000000, 19856742, 10888218>>,
    <<20000000, 10000000, 351, 250000000, -170811757, -53988856>>, <<20000000, 10000000, 352, 0, 20000000, 10000000>>,
    <<20000000, 10000000, 352, 1000, 19999873, 10000891>>, <<20000000, 10000000, 352, 1000000, 19872548, 10890545>>,
    <<20000400, 9999192, 1, 1000, 20000416, 10000091>>, <<20000400, 9999192, 10, 1000, 20000559, 10000078>>,
    <<20000400, 9999192, 19, 1000, 20000697, 10000042>>, <<20000400, 9999192, 28, 1000, 20000829, 9999986>>,
    <<20000400, 9999192, 37, 1000, 20000950, 9999910>>, <<20000400, 9999192, 46, 1000, 20001057, 9999817>>,
    <<20000400, 9999192, 55, 1000, 20001148, 9999708>>, <<20000400, 9999192, 64, 1000, 20001221, 9999586>>,
    <<20000400, 9999192, 73, 1000, 20001273, 9999455>>, <<20000400, 9999192, 82, 1000, 20001304, 9999317>>,
    <<20000400, 9999192, 91, 1000, 20001313, 9999176>>, <<20000400, 9999192, 100, 1000, 20001299, 9999036>>,
    <<20000400, 9999192, 109, 1000, 20001263, 9998899>>, <<20000400, 9999192, 118, 1000, 20001206, 9998770>>,
    <<20000400, 9999192, 127, 1000, 20001129, 9998651>>, <<20000400, 9999192, 136, 1000, 20001034, 9998545>>,
    <<20000400, 9999192, 145, 1000, 20000924, 9998455>>, <<20000400, 9999192, 154, 1000, 20000800, 9998384>>,
    <<20000400, 9999192, 163, 1000, 20000667, 9998332>>, <<20000400, 9999192, 172, 1000, 20000527, 9998301>>,
    <<20000400, 9999192, 181, 1000, 20000384, 9998293>>, <<20000400, 9999192, 190, 1000, 20000241, 9998306>>,
    <<20000400, 9999192, 199, 1000, 20000103, 9998342>>, <<20000400, 9999192, 208, 1000, 19999971, 9998398>>,
    <<20000400, 9999192, 217, 1000, 19999850, 9998474>>, <<20000400, 9999192, 226, 1000, 19999743, 9998567>>,
    <<20000400, 9999192, 235, 1000, 19999652, 9998676>>, <<20000400, 9999192, 244, 1000, 19999579, 9998798>>,
    <<20000400, 9999192, 253, 1000, 19999527, 9998929>>, <<20000400, 9999192, 262, 1000, 19999496, 9999067>>,
    <<20000400, 9999192, 271, 1000, 19999487, 9999208>>, <<20000400, 9999192, 280, 1000, 19999501, 9999348>>,
    <<20000400, 9999192, 289, 1000, 19999537, 9999485>>, <<20000400, 9999192, 298, 1000, 19999594, 9999614>>,
    <<20000400, 9999192, 307, 1000, 19999671, 9999733>>, <<20000400, 9999192, 316, 1000, 19999766, 9999839>>,
    <<20000400, 9999192, 325, 1000, 19999876, 9999929>>, <<20000400, 9999192, 334, 1000, 20000000, 10000000>>,
    <<20000400, 9999192, 343, 1000, 20000133, 10000052>>, <<20000400, 9999192, 352, 1000, 20000273, 10000083>>,
    <<20000415, 9999199, 0, 1000, 20000415, 10000098>>, <<20000415, 9999199, 9, 1000, 20000558, 10000087>>,
    <<20000415, 9999199, 18, 1000, 20000697, 10000054>>, <<20000415, 9999199, 27, 1000, 20000830, 10000000>>,
    <<20000415, 9999199, 36, 1000, 20000952, 9999927>>, <<20000415, 9999199, 45, 1000, 20001061, 9999835>>,
    <<20000415, 9999199, 54, 1000, 20001154, 9999728>>, <<20000415, 9999199, 63, 1000, 20001229, 9999607>>,
    <<20000415, 9999199, 72, 1000, 20001283, 9999477>>, <<20000415, 9999199, 81, 1000, 20001317, 9999340>>,
    <<20000415, 9999199, 90, 1000, 20001328, 9999199>>, <<20000415, 9999199, 99, 1000, 20001317, 9999058>>,
    <<20000415, 9999199, 108, 1000, 20001283, 9998921>>, <<20000415, 9999199, 117, 1000, 20001229, 9998791>>,
    <<20000415, 9999199, 126, 1000, 20001154, 9998670>>, <<20000415, 9999199, 135, 1000, 20001061, 9998563>>,
    <<20000415, 9999199, 144, 1000, 20000952, 9998471>>, <<20000415, 9999199, 153, 1000, 20000830, 9998398>>,
    <<20000415, 9999199, 162, 1000, 20000697, 9998344>>, <<20000415, 9999199, 171, 1000, 20000558, 9998311>>,
    <<20000415, 9999199, 180, 1000, 20000415, 9998300>>, <<20000415, 9999199, 189, 1000, 20000272, 9998311>>,
    <<20000415, 9999199, 198, 1000, 20000133, 9998344>>, <<20000415, 9999199, 207, 1000, 20000000, 9998398>>,
    <<20000415, 9999199, 216, 1000, 19999878, 9998471>>, <<20000415, 9999199, 225, 1000, 19999769, 9998563>>,
    <<20000415, 9999199, 234, 1000, 19999676, 9998670>>, <<20000415, 9999199, 243, 1000, 19999601, 9998791>>,
    <<20000415, 9999199, 252, 1000, 19999547, 9998921>>, <<20000415, 9999199, 261, 1000, 19999513, 9999058>>,
    <<20000415, 9999199, 270, 1000, 19999502, 9999199>>, <<20000415, 9999199, 279, 1000, 19999513, 9999340>>,
    <<20000415, 9999199, 288, 1000, 19999547, 9999477>>, <<20000415, 9999199, 297, 1000, 19999601, 9999607>>,
    <<20000415, 9999199, 306, 1000, 19999676, 9999728>>, <<20000415, 9999199, 315, 1000, 19999769, 9999835>>,
    <<20000415, 9999199, 324, 1000, 19999878, 9999927>>, <<20000415, 9999199, 333, 1000, 20000000, 10000000>>,
    <<20000415, 9999199, 342, 1000, 20000133, 10000054>>, <<20000415, 9999199, 351, 1000, 20000272, 10000087>>,
    <<20000913, 10000000, 0, 1000, 20000913, 10000899>>, <<20000913, 10000000, 9, 1000, 20001056, 10000888>>,
    <<20000913, 10000000, 18, 1000, 20001195, 10000855>>, <<20000913, 10000000, 27, 1000, 20001328, 10000801>>,
    <<20000913, 10000000, 36, 1000, 20001450, 10000728>>, <<20000913, 10000000, 45, 1000, 20001559, 10000636>>,
    <<20000913, 10000000, 54, 1000, 20001652, 10000529>>, <<20000913, 10000000, 63, 1000, 20001727, 10000408>>,
    <<20000913, 10000000, 72, 1000, 20001782, 10000278>>, <<20000913, 10000000, 81, 1000, 20001815, 10000141>>,
    <<20000913, 10000000, 90, 1000, 20001826, 10000000>>, <<20000913, 10000000, 99, 1000, 20001815, 9999859>>,
    <<20000913, 10000000, 108, 1000, 20001781, 9999722>>, <<20000913, 10000000, 117, 1000, 20001727, 9999592>>,
    <<20000913, 10000000, 126, 1000, 20001652, 9999471>>, <<20000913, 10000000, 135, 1000, 20001559, 9999364>>,
    <<20000913, 10000000, 144, 1000, 20001450, 9999272>>, <<20000913, 10000000, 153, 1000, 20001328, 9999199>>,
    <<20000913, 10000000, 162, 1000, 20001195, 9999145>>, <<20000913, 10000000, 171, 1000, 20001056, 9999112>>,
    <<20000913, 10000000, 180, 1000, 20000913, 9999101>>, <<20000913, 10000000, 189, 1000, 20000770, 9999112>>,
    <<20000913, 10000000, 198, 1000, 20000631, 9999145>>, <<20000913, 10000000, 207, 1000, 20000498, 9999199>>,
    <<20000913, 10000000, 216, 1000, 20000376, 9999272>>, <<20000913, 10000000, 225, 1000, 20000267, 9999364>>,
    <<20000913, 10000000, 234, 1000, 20000174, 9999471>>, <<20000913, 10000000, 243, 1000, 20000099, 9999592>>,
    <<20000913, 10000000, 252, 1000, 20000045, 9999722>>, <<20000913, 10000000, 261, 1000, 20000011, 9999859>>,
    <<20000913, 10000000, 270, 1000, 20000000, 10000000>>, <<20000913, 10000000, 279, 1000, 20000011, 10000141>>,
    <<20000913, 10000000, 288, 1000, 20000044, 10000278>>, <<20000913, 10000000, 297, 1000, 20000099, 10000408>>,
    <<20000913, 10000000, 306, 1000, 20000174, 10000529>>, <<20000913, 10000000, 315, 1000, 20000267, 10000636>>,
    <<20000913, 10000000, 324, 1000, 20000376, 10000728>>, <<20000913, 10000000, 333, 1000, 20000498, 10000801>>,
    <<20000913, 10000000, 342, 1000, 20000631, 10000855>>, <<20000913, 10000000, 351, 1000, 20000770, 10000888>>,
    <<20399351, 9191463, 1, 1000000, 20415292, 10090647>>, <<20399351, 9191463, 10, 1000000, 20557957, 10077086>>,
    <<20399351, 9191463, 19, 1000000, 20696686, 10041663>>, <<20399351, 9191463, 28, 1000000, 20828037, 9985257>>,
    <<20399351, 9191463, 37, 1000000, 20948759, 9909268>>, <<20399351, 9191463, 46, 1000000, 21055867, 9815579>>,
    <<20399351, 9191463, 55, 1000000, 21146722, 9706511>>, <<20399351, 9191463, 64, 1000000, 21219094, 9584763>>,
    <<20399351, 9191463, 73, 1000000, 21271215, 9453344>>, <<20399351, 9191463, 82, 1000000, 21301823, 9315499>>,
    <<20399351, 9191463, 91, 1000000, 21310189, 9174627>>, <<20399351, 9191463, 100, 1000000, 21296134, 9034197>>,
    <<20399351, 9191463, 109, 1000000, 21260031, 8897663>>, <<20399351, 9191463, 118, 1000000, 21202788, 8768381>>,
    <<20399351, 9191463, 127, 1000000, 21125833, 8649525>>, <<20399351, 9191463, 136, 1000000, 21031070, 8544008>>,
    <<20399351, 9191463, 145, 1000000, 20920833, 8454417>>, <<20399351, 9191463, 154, 1000000, 20797832, 8382945>>,
    <<20399351, 9191463, 163, 1000000, 20665082, 8331343>>, <<20399351, 9191463, 172, 1000000, 20525832, 8300872>>,
    <<20399351, 9191463, 181, 1000000, 20383491, 8292278>>, <<20399351, 9191463, 190, 1000000, 20241536, 8305771>>,
    <<20399351, 9191463, 199, 1000000, 20103441, 8341021>>, <<20399351, 9191463, 208, 1000000, 19972583, 8397165>>,
    <<20399351, 9191463, 217, 1000000, 19852168, 8472831>>, <<20399351, 9191463, 226, 1000000, 19745148, 8566165>>,
    <<20399351, 9191463, 235, 1000000, 19654154, 8674882>>, <<20399351, 9191463, 244, 1000000, 19581432, 8796318>>,
    <<20399351, 9191463, 253, 1000000, 19528781, 8927493>>, <<20399351, 9191463, 262, 1000000, 19497517, 9065187>>,
    <<20399351, 9191463, 271, 1000000, 19488432, 9206016>>, <<20399351, 9191463, 280, 1000000, 19501776, 9346514>>,
    <<20399351, 9191463, 289, 1000000, 19537247, 9483221>>, <<20399351, 9191463, 298, 1000000, 19593996, 9612764>>,
    <<20399351, 9191463, 307, 1000000, 19670644, 9731945>>, <<20399351, 9191463, 316, 1000000, 19765319, 9837816>>,
    <<20399351, 9191463, 325, 1000000, 19875694, 9927758>>, <<20399351, 9191463, 334, 1000000, 19999046, 9999542>>,
    <<20399351, 9191463, 343, 1000000, 20132326, 10051388>>, <<20399351, 9191463, 352, 1000000, 20272232, 10082010>>,
    <<20413589, 9198449, 0, 1000000, 20413589, 10097771>>, <<20413589, 9198449, 9, 1000000, 20556477, 10086670>>,
    <<20413589, 9198449, 18, 1000000, 20695818, 10053642>>, <<20413589, 9198449, 27, 1000000, 20828157, 9999508>>,
    <<20413589, 9198449, 36, 1000000, 20950215, 9925609>>, <<20413589, 9198449, 45, 1000000, 21058975, 9833780>>,
    <<20413589, 9198449, 54, 1000000, 21151756, 9726294>>, <<20413589, 9198449, 63, 1000000, 21226279, 9605811>>,
    <<20413589, 9198449, 72, 1000000, 21280723, 9475310>>, <<20413589, 9198449, 81, 1000000, 21313767, 9338013>>,
    <<20413589, 9198449, 90, 1000000, 21324624, 9197306>>, <<20413589, 9198449, 99, 1000000, 21313052, 9056655>>,
    <<20413589, 9198449, 108, 1000000, 21279362, 8919521>>, <<20413589, 9198449, 117, 1000000, 21224406, 8789273>>,
    <<20413589, 9198449, 126, 1000000, 21149554, 8669108>>, <<20413589, 9198449, 135, 1000000, 21056659, 8561975>>,
    <<20413589, 9198449, 144, 1000000, 20948013, 8470499>>, <<20413589, 9198449, 153, 1000000, 20826283, 8396919>>,
    <<20413589, 9198449, 162, 1000000, 20694457, 8343038>>, <<20413589, 9198449, 171, 1000000, 20555761, 8310173>>,
    <<20413589, 9198449, 180, 1000000, 20413589, 8299127>>, <<20413589, 9198449, 189, 1000000, 20271417, 8310173>>,
    <<20413589, 9198449, 198, 1000000, 20132721, 8343038>>, <<20413589, 9198449, 207, 1000000, 20000895, 8396919>>,
    <<20413589, 9198449, 216, 1000000, 19879165, 8470499>>, <<20413589, 9198449, 225, 1000000, 19770519, 8561975>>,
    <<20413589, 9198449, 234, 1000000, 19677624, 8669108>>, <<20413589, 9198449, 243, 1000000, 19602772, 8789273>>,
    <<20413589, 9198449, 252, 1000000, 19547816, 8919521>>, <<20413589, 9198449, 261, 1000000, 19514126, 9056655>>,
    <<20413589, 9198449, 270, 1000000, 19502554, 9197306>>, <<20413589, 9198449, 279, 1000000, 19513411, 9338013>>,
    <<20413589, 9198449, 288, 1000000, 19546455, 9475310>>, <<20413589, 9198449, 297, 1000000, 19600899, 9605811>>,
    <<20413589, 9198449, 306, 1000000, 19675422, 9726294>>, <<20413589, 9198449, 315, 1000000, 19768203, 9833780>>,
    <<20413589, 9198449, 324, 1000000, 19876963, 9925609>>, <<20413589, 9198449, 333, 1000000, 19999021, 9999508>>,
    <<20413589, 9198449, 342, 1000000, 20131360, 10053642>>, <<20413589, 9198449, 351, 1000000, 20270701, 10086670>>,
    <<20913193, 9998756, 0, 1000000, 20913193, 10898078>>, <<20913193, 9998756, 9, 1000000, 21056451, 10886974>>,
    <<20913193, 9998756, 18, 1000000, 21196150, 10853939>>, <<20913193, 9998756, 27, 1000000, 21328825, 10799794>>,
    <<20913193, 9998756, 36, 1000000, 21451186, 10725881>>, <<20913193, 9998756, 45, 1000000, 21560209, 10634036>>,
    <<20913193, 9998756, 54, 1000000, 21653204, 10526534>>, <<20913193, 9998756, 63, 1000000, 21727888, 10406037>>,
    <<20913193, 9998756, 72, 1000000, 21782438, 10275525>>, <<20913193, 9998756, 81, 1000000, 21815532, 10138221>>,
    <<20913193, 9998756, 90, 1000000, 21826382, 9997512>>, <<20913193, 9998756, 99, 1000000, 21814751, 9856863>>,
    <<20913193, 9998756, 108, 1000000, 21780953, 9719736>>, <<20913193, 9998756, 117, 1000000, 21725844, 9589499>>,
    <<20913193, 9998756, 126, 1000000, 21650801, 9469349>>, <<20913193, 9998756, 135, 1000000, 21557682, 9362232>>,
    <<20913193, 9998756, 144, 1000000, 21448783, 9270771>>, <<20913193, 9998756, 153, 1000000, 21326780, 9197205>>,
    <<20913193, 9998756, 162, 1000000, 21194665, 9143335>>, <<20913193, 9998756, 171, 1000000, 21055670, 9110477>>,
    <<20913193, 9998756, 180, 1000000, 20913193, 9099434>>, <<20913193, 9998756, 189, 1000000, 20770716, 9110477>>,
    <<20913193, 9998756, 198, 1000000, 20631721, 9143335>>, <<20913193, 9998756, 207, 1000000, 20499606, 9197205>>,
    <<20913193, 9998756, 216, 1000000, 20377603, 9270771>>, <<20913193, 9998756, 225, 1000000, 20268704, 9362232>>,
    <<20913193, 9998756, 234, 1000000, 20175585, 9469349>>, <<20913193, 9998756, 243, 1000000, 20100542, 9589499>>,
    <<20913193, 9998756, 252, 1000000, 20045433, 9719736>>, <<20913193, 9998756, 261, 1000000, 20011635, 9856863>>,
    <<20913193, 9998756, 270, 1000000, 20000004, 9997512>>, <<20913193, 9998756, 279, 1000000, 20010854, 10138221>>,
    <<20913193, 9998756, 288, 1000000, 20043948, 10275525>>, <<20913193, 9998756, 297, 1000000, 20098498, 10406037>>,
    <<20913193, 9998756, 306, 1000000, 20173182, 10526534>>, <<20913193, 9998756, 315, 1000000, 20266177, 10634036>>,
    <<20913193, 9998756, 324, 1000000, 20375200, 10725881>>, <<20913193, 9998756, 333, 1000000, 20497561, 10799794>>,
    <<20913193, 9998756, 342, 1000000, 20630236, 10853939>>, <<20913193, 9998756, 351, 1000000, 20769935, 10886974>> }

calculateDestinationPoint(start, bearing, distance) ==
  LET result == CHOOSE entry \in DestinationEntries :
                  /\ entry[1] = start.longitude
                  /\ entry[2] = start.latitude
                  /\ entry[3] = bearing
                  /\ entry[4] = distance
  IN  Point(result[5], result[6])

\* generateOrbitAreaPolygon: const segments = 20
segments == 20

\* generateOrbitAreaPolygon's centerline for the alignment
centerline(firstPoint, secondPoint, bearing, radius, alignment) ==
  IF alignment = "OrbitAreaAlignmentEnum_LEFT"
    THEN LET leftBearing == normalizeAngle(bearing - 90) IN
           << calculateDestinationPoint(firstPoint, leftBearing, radius),
              calculateDestinationPoint(secondPoint, leftBearing, radius) >>
  ELSE IF alignment = "OrbitAreaAlignmentEnum_RIGHT"
    THEN LET rightBearing == normalizeAngle(bearing + 90) IN
           << calculateDestinationPoint(firstPoint, rightBearing, radius),
              calculateDestinationPoint(secondPoint, rightBearing, radius) >>
  ELSE << firstPoint, secondPoint >>

\* the angles of one of generateOrbitAreaPolygon's two loops, i = 0..segments
capAngles(startAngle, angleStep) ==
  [k \in 1..(segments + 1) |-> normalizeAngle(startAngle + (k - 1) * angleStep)]

\* a plausible slip: the end angle is not taken round when start > end
capSweeps_noWraparound(bearing) ==
  LET startAngle == normalizeAngle(bearing + 90)
      endAngle == normalizeAngle(bearing - 90)
      angleStep == (endAngle - startAngle) \div segments
  IN  [angleStep |-> angleStep,
       first |-> capAngles(startAngle, angleStep),
       second |-> capAngles(normalizeAngle(bearing - 90), angleStep)]

\* generateOrbitAreaPolygon's angles for the axis bearing: the step, computed
\* once from the first semicircle's start and end, and the angles of the
\* two loops; the two angles are half a turn apart, so for a whole bearing
\* the step is a whole number of degrees
capSweeps(bearing) ==
  LET \* first semicircle
      startAngle == normalizeAngle(bearing + 90)
      endAngle == normalizeAngle(bearing - 90)
      endAngleAround == IF startAngle > endAngle THEN endAngle + 360 ELSE endAngle
      angleStep == (endAngleAround - startAngle) \div segments
      \* second semicircle: its own start; its end angle is computed and
      \* not used
      secondStartAngle == normalizeAngle(bearing - 90)
  IN  [angleStep |-> angleStep,
       first |-> capAngles(startAngle, angleStep),
       second |-> capAngles(secondStartAngle, angleStep)]

\* one of generateOrbitAreaPolygon's two loops: the points pushed for
\* i = 0..segments around center
capPoints(center, angles, radius) ==
  [k \in 1..Len(angles) |-> calculateDestinationPoint(center, angles[k], radius)]

\* a plausible slip: the ring is returned without its closing point
generateOrbitAreaPolygon_open(firstPoint, secondPoint, width, alignment) ==
  LET bearing == calculateBearing(firstPoint, secondPoint)
      radius == width \div 2
      line == centerline(firstPoint, secondPoint, bearing, radius, alignment)
      sweeps == capSweeps(bearing)
  IN  capPoints(line[1], sweeps.first, radius)
        \o capPoints(line[2], sweeps.second, radius)

\* a plausible slip: the second semicircle swept from the same angle as the
\* first
generateOrbitAreaPolygon_sameHalf(firstPoint, secondPoint, width, alignment) ==
  LET bearing == calculateBearing(firstPoint, secondPoint)
      radius == width \div 2
      line == centerline(firstPoint, secondPoint, bearing, radius, alignment)
      sweeps == capSweeps(bearing)
      polygonPoints == capPoints(line[1], sweeps.first, radius)
                         \o capPoints(line[2], sweeps.first, radius)
  IN  Append(polygonPoints, polygonPoints[1])

\* generateOrbitAreaPolygon(firstPoint, secondPoint, width, alignment); the
\* widths used are even, so radius = width / 2 is a whole number of tenths
generateOrbitAreaPolygon(firstPoint, secondPoint, width, alignment) ==
  LET bearing == calculateBearing(firstPoint, secondPoint)
      distance == calculateDistance(firstPoint, secondPoint)
      radius == width \div 2
      line == centerline(firstPoint, secondPoint, bearing, radius, alignment)
      sweeps == capSweeps(bearing)
      \* first semicircle, at the first centerline point
      firstCap == capPoints(line[1], sweeps.first, radius)
      \* second semicircle, at the second centerline point
      secondCap == capPoints(line[2], sweeps.second, radius)
      polygonPoints == firstCap \o secondCap
  IN  IF Len(polygonPoints) > 0
        THEN Append(polygonPoints,
                    [longitude |-> polygonPoints[1].longitude,
                     latitude |-> polygonPoints[1].latitude])
        ELSE polygonPoints

----------------------------------------------------------------------------
(* alignment-utils *)

\* a plausible slip: the quadrants listed in ascending order of angle
ALIGNMENT_QUADRANTS_ascending ==
  << [name |-> "RIGHT",           minAngle |-> 45,  maxAngle |-> 135, alignment |-> RIGHT],
     [name |-> "CENTER_BACKWARD", minAngle |-> 135, maxAngle |-> 225, alignment |-> CENTRE],
     [name |-> "LEFT",            minAngle |-> 225, maxAngle |-> 315, alignment |-> LEFT],
     [name |-> "CENTER_FORWARD",  minAngle |-> 315, maxAngle |-> 45,  alignment |-> CENTRE] >>

ALIGNMENT_QUADRANTS ==
  << [name |-> "CENTER_FORWARD",  minAngle |-> 315, maxAngle |-> 45,  alignment |-> CENTRE],
     [name |-> "RIGHT",           minAngle |-> 45,  maxAngle |-> 135, alignment |-> RIGHT],
     [name |-> "CENTER_BACKWARD", minAngle |-> 135, maxAngle |-> 225, alignment |-> CENTRE],
     [name |-> "LEFT",            minAngle |-> 225, maxAngle |-> 315, alignment |-> LEFT] >>

\* a plausible slip: the bounds taken as exclusive
QuadrantMatches_exclusive(quadrant, relativeBearing) ==
  IF quadrant.minAngle > quadrant.maxAngle
    THEN relativeBearing > quadrant.minAngle \/ relativeBearing < quadrant.maxAngle
    ELSE relativeBearing > quadrant.minAngle /\ relativeBearing < quadrant.maxAngle

\* whether the quadrant's test accepts the relative bearing
QuadrantMatches(quadrant, relativeBearing) ==
  IF quadrant.minAngle > quadrant.maxAngle
    THEN relativeBearing >= quadrant.minAngle \/ relativeBearing <= quadrant.maxAngle
    ELSE relativeBearing >= quadrant.minAngle /\ relativeBearing <= quadrant.maxAngle

\* the for loop over ALIGNMENT_QUADRANTS from index i, and the default after
\* it: the quadrant the loop returns from (as the debug line names it, DEFAULT
\* for the fall-through) and the alignment returned
RECURSIVE ScanQuadrants(_, _)
ScanQuadrants(relativeBearing, i) ==
  IF i > Len(ALIGNMENT_QUADRANTS) THEN [name |-> "DEFAULT", alignment |-> CENTRE]
  ELSE IF QuadrantMatches(ALIGNMENT_QUADRANTS[i], relativeBearing)
    THEN [name |-> ALIGNMENT_QUADRANTS[i].name,
          alignment |-> ALIGNMENT_QUADRANTS[i].alignment]
    ELSE ScanQuadrants(relativeBearing, i + 1)

\* a plausible slip: the relative bearing taken the other way round
relativeBearingOf_swapped(mainBearing, mouseBearing) ==
  normalizeAngle(mainBearing - mouseBearing)

\* determineAlignmentFromMousePosition's relativeBearing
relativeBearingOf(mainBearing, mouseBearing) ==
  normalizeAngle(mouseBearing - mainBearing)

\* determineAlignmentFromMousePosition from its two bearings on: the relative
\* bearing, the quadrant the loop returns from and the alignment returned
classifyBearings(mainBearing, mouseBearing) ==
  LET relativeBearing == relativeBearingOf(mainBearing, mouseBearing)
      matched == ScanQuadrants(relativeBearing, 1)
  IN  [relativeBearing |-> relativeBearing,
       quadrant |-> matched.name,
       alignment |-> matched.alignment]

determineAlignmentFromMousePosition(firstPoint, secondPoint, mousePoint) ==
  LET mainBearing == calculateBearing(firstPoint, secondPoint)
      mouseBearing == calculateBearing(secondPoint, mousePoint)
  IN  classifyBearings(mainBearing, mouseBearing).alignment

----------------------------------------------------------------------------
(* hooks/useOrbitAreaEditor *)

\* a handler that returns without calling setEditorState / onStateChange
NoUpdate == [noUpdate |-> TRUE]

\* useState's initial value
initialEditorState ==
  [mode |-> INACTIVE, firstPoint |-> undefined, secondPoint |-> undefined,
   width |-> undefined, mousePosition |-> undefined, alignment |-> CENTRE]

\* a plausible slip: start changes the mode only
startEditing_modeOnly == [editorState EXCEPT !.mode = FIRST_POINT]

\* the value startEditing gives to setEditorState
startEditing ==
  [mode |-> FIRST_POINT, firstPoint |-> undefined, secondPoint |-> undefined,
   width |-> undefined, mousePosition |-> undefined, alignment |-> CENTRE]

\* a plausible slip: cancel leaves the mode only
cancelEditing_modeOnly == [editorState EXCEPT !.mode = INACTIVE]

\* the value cancelEditing gives to setEditorState
cancelEditing ==
  [mode |-> INACTIVE, firstPoint |-> undefined, secondPoint |-> undefined,
   width |-> undefined, mousePosition |-> undefined, alignment |-> CENTRE]

\* isEditing, computed at render
isEditing(state) == state.mode # INACTIVE

\* a plausible slip: every mode but the later two takes the click as the
\* first point
handleMapClick_noModeGuard(closure, coordinate) ==
  IF coordinate = null THEN NoUpdate
  ELSE LET pickedPoint == Point(coordinate[1], coordinate[2]) IN
    CASE closure.mode = SECOND_POINT ->
           [closure EXCEPT !.secondPoint = pickedPoint, !.mode = WIDTH_SELECTION]
      [] closure.mode = WIDTH_SELECTION ->
           IF closure.firstPoint # undefined /\ closure.secondPoint # undefined
             THEN [mode |-> INACTIVE, firstPoint |-> undefined,
                   secondPoint |-> undefined, width |-> undefined,
                   mousePosition |-> undefined, alignment |-> closure.alignment]
             ELSE NoUpdate
      [] OTHER ->
           [closure EXCEPT !.firstPoint = pickedPoint, !.mode = SECOND_POINT]

\* a plausible slip: the second click is stored in the first slot as well
handleMapClick_secondOverFirst(closure, coordinate) ==
  IF coordinate = null THEN NoUpdate
  ELSE LET pickedPoint == Point(coordinate[1], coordinate[2]) IN
    CASE closure.mode = FIRST_POINT ->
           [closure EXCEPT !.firstPoint = pickedPoint, !.mode = SECOND_POINT]
      [] closure.mode = SECOND_POINT ->
           [closure EXCEPT !.firstPoint = pickedPoint, !.secondPoint = pickedPoint,
                           !.mode = WIDTH_SELECTION]
      [] closure.mode = WIDTH_SELECTION ->
           IF closure.firstPoint # undefined /\ closure.secondPoint # undefined
             THEN [mode |-> INACTIVE, firstPoint |-> undefined,
                   secondPoint |-> undefined, width |-> undefined,
                   mousePosition |-> undefined, alignment |-> closure.alignment]
             ELSE NoUpdate
      [] OTHER -> NoUpdate

\* a plausible slip: the finalizing click leaves the mode and keeps the rest
handleMapClick_completeKeepsPoints(closure, coordinate) ==
  IF coordinate = null THEN NoUpdate
  ELSE LET pickedPoint == Point(coordinate[1], coordinate[2]) IN
    CASE closure.mode = FIRST_POINT ->
           [closure EXCEPT !.firstPoint = pickedPoint, !.mode = SECOND_POINT]
      [] closure.mode = SECOND_POINT ->
           [closure EXCEPT !.secondPoint = pickedPoint, !.mode = WIDTH_SELECTION]
      [] closure.mode = WIDTH_SELECTION ->
           IF closure.firstPoint # undefined /\ closure.secondPoint # undefined
             THEN [closure EXCEPT !.mode = INACTIVE]
             ELSE NoUpdate
      [] OTHER -> NoUpdate

\* handleMapClick(info): closure is the editorState the callback was built
\* with; the result is the value given to setEditorState
handleMapClick(closure, coordinate) ==
  IF coordinate = null THEN NoUpdate
  ELSE LET pickedPoint == Point(coordinate[1], coordinate[2]) IN
    CASE closure.mode = FIRST_POINT ->
           [closure EXCEPT !.firstPoint = pickedPoint, !.mode = SECOND_POINT]
      [] closure.mode = SECOND_POINT ->
           [closure EXCEPT !.secondPoint = pickedPoint, !.mode = WIDTH_SELECTION]
      [] closure.mode = WIDTH_SELECTION ->
           IF closure.firstPoint # undefined /\ closure.secondPoint # undefined
             THEN [mode |-> INACTIVE, firstPoint |-> undefined,
                   secondPoint |-> undefined, width |-> undefined,
                   mousePosition |-> undefined, alignment |-> closure.alignment]
             ELSE NoUpdate
      [] OTHER -> NoUpdate

\* handleMouseMove(info)
handleMouseMove(closure, coordinate) ==
  IF coordinate = null THEN NoUpdate
  ELSE [closure EXCEPT !.mousePosition = Point(coordinate[1], coordinate[2])]

\* setEditorState(update) with a value (not an updater function)
setEditorState(update) ==
  editorState' = IF update = NoUpdate THEN editorState ELSE update

----------------------------------------------------------------------------
(* layers/OrbitAreaEditor *)

\* the props the mounting component gives the layer
LayerProps ==
  [editorState |-> rendered,
   onStateChange |-> wiring = "layer",
   onOrbitAreaComplete |-> wiring \in {"demo", "layer"}]

\* updateState: the new value of _currentAlignment for the given props
updateState(props, alignment) ==
  LET state == props.editorState
      \* if (this.props.editorState.alignment): every enum value is truthy
      fromProps == IF state.alignment \in OrbitAreaAlignmentEnum
                     THEN state.alignment ELSE alignment
  IN  IF /\ state.mode = WIDTH_SELECTION
         /\ state.firstPoint # undefined
         /\ state.secondPoint # undefined
         /\ state.mousePosition # undefined
        THEN determineAlignmentFromMousePosition(
               state.firstPoint, state.secondPoint, state.mousePosition)
        ELSE fromProps

\* onClick's pickedPoint: info.coordinate?.[0] || 0, info.coordinate?.[1] || 0
layerPickedPoint(coordinate) ==
  IF coordinate = null THEN Point(0, 0)
  ELSE Point(IF coordinate[1] = 0 THEN 0 ELSE coordinate[1],
             IF coordinate[2] = 0 THEN 0 ELSE coordinate[2])

\* onClick, WIDTH_SELECTION: the OrbitArea built from the props' points, the
\* picked point and _currentAlignment
completedOrbitArea_alignmentOfClick(state, pickedPoint, alignment) ==
  [first_point |-> state.firstPoint,
   second_point |-> state.secondPoint,
   width |-> calculateDistance(state.secondPoint, pickedPoint) * 2,
   alignment |-> determineAlignmentFromMousePosition(
                   state.firstPoint, state.secondPoint, pickedPoint)]

completedOrbitArea(state, pickedPoint, alignment) ==
  LET distance == calculateDistance(state.secondPoint, pickedPoint)
      width == distance * 2
      effectiveAlignment == alignment
  IN  [first_point |-> state.firstPoint,
       second_point |-> state.secondPoint,
       width |-> width,
       alignment |-> effectiveAlignment]

\* onClick(info): update is the value given to onStateChange, complete the
\* OrbitAreas given to onOrbitAreaComplete
onClick(props, alignment, coordinate) ==
  LET state == props.editorState
      pickedPoint == layerPickedPoint(coordinate)
      nothing == [update |-> NoUpdate, complete |-> <<>>]
  IN
  IF ~props.onStateChange THEN nothing
  ELSE
    CASE state.mode = FIRST_POINT ->
           [update |-> [state EXCEPT !.firstPoint = pickedPoint, !.mode = SECOND_POINT],
            complete |-> <<>>]
      [] state.mode = SECOND_POINT ->
           [update |-> [state EXCEPT !.secondPoint = pickedPoint, !.mode = WIDTH_SELECTION],
            complete |-> <<>>]
      [] state.mode = WIDTH_SELECTION ->
           IF state.firstPoint # undefined /\ state.secondPoint # undefined
             THEN [update |-> [state EXCEPT !.firstPoint = undefined,
                                            !.secondPoint = undefined,
                                            !.width = undefined,
                                            !.mousePosition = undefined,
                                            !.mode = INACTIVE],
                   complete |-> IF props.onOrbitAreaComplete
                                  THEN <<completedOrbitArea(state, pickedPoint, alignment)>>
                                  ELSE <<>>]
             ELSE nothing
      [] OTHER -> nothing

\* a plausible slip: the hover updates the mouse position only
onHover_positionOnly(props, alignment, coordinate) ==
  IF ~props.onStateChange \/ coordinate = null
    THEN [update |-> NoUpdate, alignment |-> alignment]
    ELSE [update |-> [props.editorState EXCEPT
                        !.mousePosition = Point(coordinate[1], coordinate[2])],
          alignment |-> alignment]

\* a plausible slip: the hover also writes the alignment it computed into the
\* state it hands to onStateChange
onHover_storesAlignment(props, alignment, coordinate) ==
  LET state == props.editorState IN
  IF ~props.onStateChange \/ coordinate = null
    THEN [update |-> NoUpdate, alignment |-> alignment]
  ELSE LET mousePosition == Point(coordinate[1], coordinate[2])
           computed ==
             IF /\ state.mode = WIDTH_SELECTION
                /\ state.firstPoint # undefined
                /\ state.secondPoint # undefined
               THEN determineAlignmentFromMousePosition(
                      state.firstPoint, state.secondPoint, mousePosition)
               ELSE alignment
       IN [update |-> [state EXCEPT !.mousePosition = mousePosition,
                                    !.alignment = computed],
           alignment |-> computed]

\* onHover(info): update is the value given to onStateChange, alignment the
\* new value of _currentAlignment
\* a plausible slip: the preview drawn with the radius as its width
renderLayers_radiusAsWidth(props, alignment) ==
  LET state == props.editorState IN
  IF /\ state.mode = WIDTH_SELECTION
     /\ state.firstPoint # undefined
     /\ state.secondPoint # undefined
     /\ state.mousePosition # undefined
    THEN [firstPoint |-> state.firstPoint,
          secondPoint |-> state.secondPoint,
          width |-> calculateDistance(state.secondPoint, state.mousePosition),
          alignment |-> alignment]
    ELSE undefined

\* renderLayers, run after updateState has left alignment in
\* _currentAlignment: the arguments of the preview's generateOrbitAreaPolygon
\* call, undefined when no preview polygon is drawn
renderLayers(props, alignment) ==
  LET state == props.editorState IN
  IF /\ state.mode = WIDTH_SELECTION
     /\ state.firstPoint # undefined
     /\ state.secondPoint # undefined
     /\ state.mousePosition # undefined
    THEN LET radius == calculateDistance(state.secondPoint, state.mousePosition)
             width == radius * 2
         IN  [firstPoint |-> state.firstPoint,
              secondPoint |-> state.secondPoint,
              width |-> width,
              alignment |-> alignment]
    ELSE undefined

onHover(props, alignment, coordinate) ==
  LET state == props.editorState IN
  IF ~props.onStateChange THEN [update |-> NoUpdate, alignment |-> alignment]
  ELSE IF coordinate = null THEN [update |-> NoUpdate, alignment |-> alignment]
  ELSE LET mousePosition == Point(coordinate[1], coordinate[2]) IN
    IF /\ state.mode = WIDTH_SELECTION
       /\ state.firstPoint # undefined
       /\ state.secondPoint # undefined
      THEN [update |-> [state EXCEPT !.mousePosition = mousePosition],
            alignment |-> determineAlignmentFromMousePosition(
                            state.firstPoint, state.secondPoint, mousePosition)]
      ELSE [update |-> [state EXCEPT !.mousePosition = mousePosition],
            alignment |-> alignment]

----------------------------------------------------------------------------
(* History variables: they record what happened and influence nothing *)

Event(op, coordinate) == [op |-> op, coordinate |-> coordinate]

ScenOff ==
  [stage |-> 0, firstPoint |-> undefined, secondPoint |-> undefined, hover |-> undefined]

\* start: the scenario begins
ScenStart == [ScenOff EXCEPT !.stage = 1]

\* an event is in sequence when the previous event's state has been rendered
InSequence == rendered = editorState

\* a click of the layer: stage 1 -> 2 (P1), 2 -> 3 (P2), 4 -> 5 (P4)
ScenClick(coordinate) ==
  IF coordinate = null \/ ~InSequence THEN ScenOff
  ELSE CASE scen.stage = 1 ->
              [scen EXCEPT !.stage = 2, !.firstPoint = Point(coordinate[1], coordinate[2])]
         [] scen.stage = 2 ->
              [scen EXCEPT !.stage = 3, !.secondPoint = Point(coordinate[1], coordinate[2])]
         [] scen.stage = 4 -> [scen EXCEPT !.stage = 5]
         [] OTHER -> ScenOff

\* a hover of the layer: stage 3 -> 4 (P3)
ScenHover(coordinate) ==
  IF coordinate = null \/ ~InSequence \/ scen.stage # 3 THEN ScenOff
  ELSE [scen EXCEPT !.stage = 4, !.hover = Point(coordinate[1], coordinate[2])]

\* a session begins with startEditing and ends with a completion or a
\* cancellation: both forget the session's hovers
HoverAfterClick(update) ==
  IF update # NoUpdate /\ update.mode = INACTIVE THEN undefined ELSE widthHover

\* a hover handled while the handler's mode is WIDTH_SELECTION with both
\* points set
HoverAfterHover(update, closure) ==
  IF /\ update # NoUpdate
     /\ closure.mode = WIDTH_SELECTION
     /\ closure.firstPoint # undefined
     /\ closure.secondPoint # undefined
    THEN update.mousePosition
    ELSE widthHover

----------------------------------------------------------------------------
(* The state after mounting *)

Wirings == {"hook", "demo", "controls", "layer"}

\* no function of the geometry engine has been called on its own
NoCalc == [op |-> "none", input |-> <<>>, done |-> FALSE, output |-> <<>>]

Init ==
  /\ wiring \in Wirings
  /\ editorState = initialEditorState
  /\ rendered = initialEditorState
  /\ currentAlignment = CENTRE
  /\ orbitAreas = <<>>
  /\ ev = Event("mount", null)
  /\ scen = ScenOff
  /\ clicks = 0
  /\ widthHover = undefined
  /\ preview = undefined
  /\ calc = NoCalc

----------------------------------------------------------------------------
(* The hook's functions called by a component that uses the hook directly,  *)
(* and by the owner of the state in the layer wiring                        *)

StartEditing ==
  /\ wiring \in {"hook", "layer"}
  /\ setEditorState(startEditing)
  /\ ev' = Event("startEditing", null)
  /\ scen' = IF wiring = "layer" THEN ScenStart ELSE ScenOff
  /\ widthHover' = undefined
  /\ UNCHANGED <<preview, calc, wiring, rendered, currentAlignment, orbitAreas, clicks>>

CancelEditing ==
  /\ wiring \in {"hook", "layer"}
  /\ setEditorState(cancelEditing)
  /\ ev' = Event("cancelEditing", null)
  /\ scen' = ScenOff
  /\ widthHover' = undefined
  /\ UNCHANGED <<preview, calc, wiring, rendered, currentAlignment, orbitAreas, clicks>>

HandleMapClick(coordinate) ==
  /\ wiring = "hook"
  /\ setEditorState(handleMapClick(rendered, coordinate))
  /\ ev' = Event("handleMapClick", coordinate)
  /\ widthHover' = HoverAfterClick(handleMapClick(rendered, coordinate))
  /\ UNCHANGED <<preview, calc, wiring, rendered, currentAlignment, orbitAreas, scen, clicks>>

HandleMouseMove(coordinate) ==
  /\ wiring = "hook"
  /\ setEditorState(handleMouseMove(rendered, coordinate))
  /\ ev' = Event("handleMouseMove", coordinate)
  /\ widthHover' = HoverAfterHover(handleMouseMove(rendered, coordinate), rendered)
  /\ UNCHANGED <<preview, calc, wiring, rendered, currentAlignment, orbitAreas, scen, clicks>>

----------------------------------------------------------------------------
(* components/OrbitAreaDemo *)

\* the start/cancel button: onClick={isEditing ? cancelEditing : startEditing}
DemoButton ==
  /\ wiring = "demo"
  /\ IF isEditing(rendered)
       THEN setEditorState(cancelEditing) /\ ev' = Event("cancelEditing", null)
       ELSE setEditorState(startEditing) /\ ev' = Event("startEditing", null)
  /\ widthHover' = undefined
  /\ UNCHANGED <<preview, calc, wiring, rendered, currentAlignment, orbitAreas, scen, clicks>>

\* DeckGL onClick: if (isEditing && info.coordinate) handleMapClick(info)
DemoOnClick(coordinate) ==
  /\ wiring = "demo"
  /\ IF isEditing(rendered) /\ coordinate # null
       THEN /\ setEditorState(handleMapClick(rendered, coordinate))
            /\ ev' = Event("handleMapClick", coordinate)
       ELSE /\ UNCHANGED editorState
            /\ ev' = Event("DeckGL.onClick", coordinate)
  /\ widthHover' = IF isEditing(rendered) /\ coordinate # null
                   THEN HoverAfterClick(handleMapClick(rendered, coordinate))
                   ELSE widthHover
  /\ UNCHANGED <<preview, calc, wiring, rendered, currentAlignment, orbitAreas, scen, clicks>>

\* DeckGL onHover: if (isEditing && info.coordinate) handleMouseMove(info)
DemoOnHover(coordinate) ==
  /\ wiring = "demo"
  /\ IF isEditing(rendered) /\ coordinate # null
       THEN /\ setEditorState(handleMouseMove(rendered, coordinate))
            /\ ev' = Event("handleMouseMove", coordinate)
       ELSE /\ UNCHANGED editorState
            /\ ev' = Event("DeckGL.onHover", coordinate)
  /\ widthHover' = IF isEditing(rendered) /\ coordinate # null
                   THEN HoverAfterHover(handleMouseMove(rendered, coordinate), rendered)
                   ELSE widthHover
  /\ UNCHANGED <<preview, calc, wiring, rendered, currentAlignment, orbitAreas, scen, clicks>>

----------------------------------------------------------------------------
(* components/OrbitAreaEditorControls: nothing calls startEditing; the     *)
(* canvas listeners and the Escape key test isEditingRef.current, which an  *)
(* effect sets to isEditing after each render                               *)

ThreeClicks == 3

CanvasClick(coordinate) ==
  /\ wiring = "controls"
  /\ coordinate # null
  /\ IF isEditing(rendered)
       THEN setEditorState(handleMapClick(rendered, coordinate))
       ELSE UNCHANGED editorState
  /\ ev' = Event("handleCanvasClick", coordinate)
  /\ clicks' = IF clicks < ThreeClicks THEN clicks + 1 ELSE clicks
  /\ widthHover' = IF isEditing(rendered)
                   THEN HoverAfterClick(handleMapClick(rendered, coordinate))
                   ELSE widthHover
  /\ UNCHANGED <<preview, calc, wiring, rendered, currentAlignment, orbitAreas, scen>>

CanvasMouseMove(coordinate) ==
  /\ wiring = "controls"
  /\ coordinate # null
  /\ IF isEditing(rendered)
       THEN setEditorState(handleMouseMove(rendered, coordinate))
       ELSE UNCHANGED editorState
  /\ ev' = Event("handleCanvasMouseMove", coordinate)
  /\ widthHover' = IF isEditing(rendered)
                   THEN HoverAfterHover(handleMouseMove(rendered, coordinate), rendered)
                   ELSE widthHover
  /\ UNCHANGED <<preview, calc, wiring, rendered, currentAlignment, orbitAreas, scen, clicks>>

KeyDown ==
  /\ wiring = "controls"
  /\ IF isEditing(rendered)
       THEN setEditorState(cancelEditing)
       ELSE UNCHANGED editorState
  /\ ev' = Event("handleKeyDown", null)
  /\ widthHover' = IF isEditing(rendered) THEN undefined ELSE widthHover
  /\ UNCHANGED <<preview, calc, wiring, rendered, currentAlignment, orbitAreas, scen, clicks>>

----------------------------------------------------------------------------
(* The layer's handlers, called with the props of the last render.         *)
(* onStateChange(s) stores s in the owner's state.                          *)

LayerOnClick(coordinate) ==
  /\ wiring \in {"demo", "layer"}
  /\ LET result == onClick(LayerProps, currentAlignment, coordinate) IN
       /\ Len(orbitAreas) + Len(result.complete) <= MaxAreas
       /\ setEditorState(result.update)
       /\ orbitAreas' = orbitAreas \o result.complete
  /\ ev' = Event("onClick", coordinate)
  /\ scen' = IF wiring = "layer" THEN ScenClick(coordinate) ELSE ScenOff
  /\ widthHover' = HoverAfterClick(
                     onClick(LayerProps, currentAlignment, coordinate).update)
  /\ UNCHANGED <<preview, calc, wiring, rendered, currentAlignment, clicks>>

LayerOnHover(coordinate) ==
  /\ wiring \in {"demo", "layer"}
  /\ LET result == onHover(LayerProps, currentAlignment, coordinate) IN
       /\ setEditorState(result.update)
       /\ currentAlignment' = result.alignment
  /\ ev' = Event("onHover", coordinate)
  /\ scen' = IF wiring = "layer" THEN ScenHover(coordinate) ELSE ScenOff
  /\ widthHover' = HoverAfterHover(
                     onHover(LayerProps, currentAlignment, coordinate).update, rendered)
  /\ UNCHANGED <<preview, calc, wiring, rendered, orbitAreas, clicks>>

----------------------------------------------------------------------------
(* A render: the handlers and the layer's props are rebuilt from the       *)
(* current state, and the layer (where one is mounted) runs updateState     *)

Render ==
  /\ rendered' = editorState
  /\ currentAlignment' =
       IF wiring \in {"demo", "layer"}
         THEN updateState([LayerProps EXCEPT !.editorState = editorState],
                          currentAlignment)
         ELSE currentAlignment
  /\ ev' = Event("render", null)
  /\ preview' =
       IF wiring \in {"demo", "layer"}
         THEN renderLayers([LayerProps EXCEPT !.editorState = editorState],
                           updateState([LayerProps EXCEPT !.editorState = editorState],
                                       currentAlignment))
         ELSE preview
  /\ UNCHANGED <<calc, wiring, editorState, orbitAreas, scen, clicks, widthHover>>

Next ==
  \/ StartEditing
  \/ CancelEditing
  \/ \E coordinate \in PickingCoordinates : HandleMapClick(coordinate)
  \/ \E coordinate \in PickingCoordinates : HandleMouseMove(coordinate)
  \/ DemoButton
  \/ \E coordinate \in PickingCoordinates : DemoOnClick(coordinate)
  \/ \E coordinate \in PickingCoordinates : DemoOnHover(coordinate)
  \/ \E coordinate \in Coordinates : CanvasClick(coordinate)
  \/ \E coordinate \in Coordinates : CanvasMouseMove(coordinate)
  \/ KeyDown
  \/ \E coordinate \in PickingCoordinates : LayerOnClick(coordinate)
  \/ \E coordinate \in PickingCoordinates : LayerOnHover(coordinate)
  \/ Render

Spec == Init /\ [][Next]_vars

----------------------------------------------------------------------------
(* The geometry engine on its own: a call of one of its functions, with     *)
(* arguments drawn from the sets below, and the step that runs it.  No      *)
(* component is mounted.                                                     *)

MaxAngle == 720

MaxTurns == 2

\* arguments of normalizeAngle
Angles == (0 - MaxAngle)..MaxAngle

\* what calculateBearing can return: geolib's getGreatCircleBearing is
\* (degrees + 360) % 360
Bearings == 0..359

\* the widths generateOrbitAreaPolygon is called with: 0, 200 m and 200 km
PolygonWidths == {0, 2000, 2000000}

\* the bearings and distances calculateDestinationPoint is called with on its
\* own: every ninth degree; 10.5 m, 50.4 m, 100 m, 100 km and 25 000 km
RoundTripBearings == {bearing \in Bearings : bearing % 9 = 0}

RoundTripDistances == {105, 504, 1000, 1000000, 250000000}

\* a call that has not run yet
Call(op, input) == [op |-> op, input |-> input, done |-> FALSE, output |-> <<>>]

\* the call after it has returned output
Returned(output) == [calc EXCEPT !.done = TRUE, !.output = output]

\* the calls that can be made; those of determineAlignmentFromMousePosition
\* are given by the two bearings it computes: mainBearing (first to second
\* point) and mouseBearing (second point to mouse)
CallMade(call) ==
  \/ \E angle \in Angles : call = Call("normalizeAngle", <<angle>>)
  \/ \E mainBearing \in Bearings, mouseBearing \in Bearings :
       call = Call("determineAlignmentFromMousePosition", <<mainBearing, mouseBearing>>)
  \/ \E firstPoint \in Points, secondPoint \in Points,
         width \in PolygonWidths, alignment \in OrbitAreaAlignmentEnum :
       call = Call("generateOrbitAreaPolygon",
                   <<firstPoint, secondPoint, width, alignment>>)
  \/ \E bearing \in Bearings :
       call = Call("generateOrbitAreaPolygon (angles)", <<bearing>>)
  \/ \E origin \in Points, bearing \in RoundTripBearings,
         distance \in RoundTripDistances :
       call = Call("calculateDestinationPoint", <<origin, bearing, distance>>)

GeoInit ==
  /\ wiring = "none"
  /\ editorState = initialEditorState
  /\ rendered = initialEditorState
  /\ currentAlignment = CENTRE
  /\ orbitAreas = <<>>
  /\ ev = Event("mount", null)
  /\ scen = ScenOff
  /\ clicks = 0
  /\ widthHover = undefined
  /\ preview = undefined
  /\ CallMade(calc)

NormalizeAngle ==
  /\ calc.op = "normalizeAngle"
  /\ ~calc.done
  /\ calc' = Returned(normalizeAngle(calc.input[1]))
  /\ UNCHANGED <<wiring, editorState, rendered, currentAlignment, orbitAreas,
                 ev, scen, clicks, widthHover, preview>>

DetermineAlignment ==
  /\ calc.op = "determineAlignmentFromMousePosition"
  /\ ~calc.done
  /\ calc' = Returned(classifyBearings(calc.input[1], calc.input[2]))
  /\ UNCHANGED <<wiring, editorState, rendered, currentAlignment, orbitAreas,
                 ev, scen, clicks, widthHover, preview>>

GenerateOrbitAreaPolygon ==
  /\ calc.op = "generateOrbitAreaPolygon"
  /\ ~calc.done
  /\ calc' = Returned(generateOrbitAreaPolygon(
                         calc.input[1], calc.input[2], calc.input[3], calc.input[4]))
  /\ UNCHANGED <<wiring, editorState, rendered, currentAlignment, orbitAreas,
                 ev, scen, clicks, widthHover, preview>>

\* calculateDestinationPoint, and calculateDistance and calculateBearing
\* from the origin to the point it returned
DestinationRoundTrip ==
  /\ calc.op = "calculateDestinationPoint"
  /\ ~calc.done
  /\ LET destination == calculateDestinationPoint(
                          calc.input[1], calc.input[2], calc.input[3])
     IN  calc' = Returned([destination |-> destination,
                           distance |-> calculateDistance(calc.input[1], destination),
                           bearing |-> calculateBearing(calc.input[1], destination)])
  /\ UNCHANGED <<wiring, editorState, rendered, currentAlignment, orbitAreas,
                 ev, scen, clicks, widthHover, preview>>

\* the part of generateOrbitAreaPolygon that depends on the axis bearing
\* only: the angles of the two semicircles
GenerateCapAngles ==
  /\ calc.op = "generateOrbitAreaPolygon (angles)"
  /\ ~calc.done
  /\ calc' = Returned(capSweeps(calc.input[1]))
  /\ UNCHANGED <<wiring, editorState, rendered, currentAlignment, orbitAreas,
                 ev, scen, clicks, widthHover, preview>>

GeoNext ==
  \/ NormalizeAngle
  \/ DetermineAlignment
  \/ GenerateOrbitAreaPolygon
  \/ GenerateCapAngles
  \/ DestinationRoundTrip

GeoSpec == GeoInit /\ [][GeoNext]_vars

----------------------------------------------------------------------------
(* Properties *)

CoordinatePoint(coordinate) == Point(coordinate[1], coordinate[2])

bothPointsSet(state) == state.firstPoint # undefined /\ state.secondPoint # undefined

\* the state a handler's update leaves
Applied(update) == IF update = NoUpdate THEN editorState ELSE update

\* C1: in the scenario startEditing(), click(P1), click(P2), hover(P3),
\* click(P4) handled by the layer - each with a coordinate, each after the
\* previous one was rendered, nothing else in between - the last click emits
\* exactly one OrbitArea, with first_point = P1, second_point = P2,
\* width = 2 x distance(P2, P4) and the alignment classified from the hover
\* P3, and leaves the mode INACTIVE.
C1_ThreeClickScenario ==
  [][ (scen.stage = 4 /\ scen'.stage = 5) =>
        /\ orbitAreas' =
             Append(orbitAreas,
                    [first_point |-> scen.firstPoint,
                     second_point |-> scen.secondPoint,
                     width |-> 2 * calculateDistance(scen.secondPoint,
                                                     CoordinatePoint(ev'.coordinate)),
                     alignment |-> determineAlignmentFromMousePosition(
                                     scen.firstPoint, scen.secondPoint, scen.hover)])
        /\ editorState'.mode = INACTIVE ]_vars

\* the scenario has run to its end, with a last click whose own position
\* classifies differently from the hover's
C1_Witness ==
  /\ scen.stage = 5
  /\ ev.op = "onClick"
  /\ Len(orbitAreas) = 1
  /\ determineAlignmentFromMousePosition(scen.firstPoint, scen.secondPoint, scen.hover)
       # determineAlignmentFromMousePosition(scen.firstPoint, scen.secondPoint,
                                             CoordinatePoint(ev.coordinate))

\* C2: in OrbitAreaDemo every click with a coordinate that is handled while
\* the mode is WIDTH_SELECTION with both points set delivers exactly one
\* OrbitArea to a completion callback.
C2_DemoClickDeliversOne ==
  [][ (/\ wiring = "demo"
       /\ ev'.op = "handleMapClick"
       /\ ev'.coordinate # null
       /\ rendered.mode = WIDTH_SELECTION
       /\ bothPointsSet(rendered))
      => Len(orbitAreas') = Len(orbitAreas) + 1 ]_vars

\* C3: with OrbitAreaEditorControls mounted, the third of three successive
\* canvas clicks has onComplete called with the created OrbitArea.
C3_ControlsThreeClicks ==
  (wiring = "controls" /\ clicks = ThreeClicks) => Len(orbitAreas) >= 1

\* C4: cancelEditing() from any mode leaves mode = INACTIVE with firstPoint,
\* secondPoint, width and mousePosition cleared, and emits no OrbitArea.
C4_CancelClears ==
  [][ ev'.op = "cancelEditing" =>
        /\ editorState'.mode = INACTIVE
        /\ editorState'.firstPoint = undefined
        /\ editorState'.secondPoint = undefined
        /\ editorState'.width = undefined
        /\ editorState'.mousePosition = undefined
        /\ orbitAreas' = orbitAreas ]_vars

\* cancelEditing has run on a state in WIDTH_SELECTION with both points and
\* the mouse position set
C4_Witness ==
  /\ ev.op = "cancelEditing"
  /\ rendered.mode = WIDTH_SELECTION
  /\ bothPointsSet(rendered)
  /\ rendered.mousePosition # undefined
  /\ editorState.mode = INACTIVE

\* C5: each click and hover of the hook is applied to the state the previous
\* event left, also when it runs before the component has re-rendered.
C5_AppliedInArrivalOrder ==
  [][ /\ ev'.op = "handleMapClick" =>
           editorState' = Applied(handleMapClick(editorState, ev'.coordinate))
      /\ ev'.op = "handleMouseMove" =>
           editorState' = Applied(handleMouseMove(editorState, ev'.coordinate)) ]_vars

\* C6: the layer's current alignment changes only in a step that handles a
\* hover while the mode is WIDTH_SELECTION.
C6_AlignmentOnlyOnHover ==
  [][ currentAlignment' # currentAlignment =>
        (ev'.op = "onHover" /\ rendered.mode = WIDTH_SELECTION) ]_vars

\* C7: a hover at p with a coordinate that the layer handles while the mode
\* is WIDTH_SELECTION and both points are set sets the mouse position to p
\* and the current alignment to
\* determineAlignmentFromMousePosition(firstPoint, secondPoint, p), and the
\* mode stays WIDTH_SELECTION.
C7_HoverSetsAlignment ==
  [][ (/\ ev'.op = "onHover"
       /\ LayerProps.onStateChange
       /\ ev'.coordinate # null
       /\ rendered.mode = WIDTH_SELECTION
       /\ bothPointsSet(rendered))
      => /\ editorState'.mousePosition = CoordinatePoint(ev'.coordinate)
         /\ currentAlignment' =
              determineAlignmentFromMousePosition(
                rendered.firstPoint, rendered.secondPoint,
                CoordinatePoint(ev'.coordinate))
         /\ editorState'.mode = WIDTH_SELECTION ]_vars

\* the layer has handled a hover in WIDTH_SELECTION that classified LEFT
C7_Witness ==
  /\ ev.op = "onHover"
  /\ LayerProps.onStateChange
  /\ ev.coordinate # null
  /\ rendered.mode = WIDTH_SELECTION
  /\ bothPointsSet(rendered)
  /\ editorState.mousePosition = CoordinatePoint(ev.coordinate)
  /\ currentAlignment = LEFT

\* C8: in every state where a layer is mounted, the alignment of the hook's
\* editorState equals the alignment the layer uses for preview and commit.
C8_SnapshotCarriesAlignment ==
  wiring \in {"demo", "layer"} => editorState.alignment = currentAlignment

\* C9: a click or hover without a coordinate changes nothing - in the hook's
\* handlers and in the layer's.
C9_NullCoordinateNoOp ==
  [][ (/\ ev'.op \in {"handleMapClick", "handleMouseMove", "onClick", "onHover"}
       /\ ev'.coordinate = null)
      => UNCHANGED <<editorState, currentAlignment, orbitAreas>> ]_vars

\* C10: a click with a coordinate handled while the mode read by the handler
\* is INACTIVE leaves the EditorState unchanged and emits no OrbitArea, in
\* handleMapClick and in the layer's onClick.
C10_InactiveClickNoOp ==
  [][ (/\ ev'.op \in {"handleMapClick", "onClick"}
       /\ ev'.coordinate # null
       /\ rendered.mode = INACTIVE)
      => UNCHANGED <<editorState, orbitAreas>> ]_vars

\* handleMapClick has run with a coordinate while the mode was INACTIVE
C10_Witness ==
  /\ ev.op = "handleMapClick"
  /\ ev.coordinate # null
  /\ rendered.mode = INACTIVE
  /\ editorState.mode = INACTIVE

\* C11: startEditing() called while the mode is INACTIVE leaves
\* mode = FIRST_POINT, firstPoint, secondPoint, width and mousePosition
\* cleared and alignment = CENTRE, whatever the state held before.
C11_StartResets ==
  [][ (ev'.op = "startEditing" /\ editorState.mode = INACTIVE) =>
        /\ editorState'.mode = FIRST_POINT
        /\ editorState'.firstPoint = undefined
        /\ editorState'.secondPoint = undefined
        /\ editorState'.width = undefined
        /\ editorState'.mousePosition = undefined
        /\ editorState'.alignment = CENTRE ]_vars

\* startEditing has run on an INACTIVE state that still held a mouse position
C11_Witness ==
  /\ ev.op = "startEditing"
  /\ rendered.mode = INACTIVE
  /\ rendered.mousePosition # undefined
  /\ editorState.mode = FIRST_POINT
  /\ editorState.mousePosition = undefined

\* C12: a click at p with a coordinate, handled by handleMapClick or by the
\* layer's onClick (with onStateChange), stores p in the slot of the mode the
\* handler read and advances that mode by one step: read in FIRST_POINT it
\* leaves firstPoint = p and mode = SECOND_POINT; read in SECOND_POINT it
\* leaves secondPoint = p, mode = WIDTH_SELECTION and firstPoint as it was;
\* neither emits an OrbitArea.
C12_ClickAdvancesOneStep ==
  [][ (/\ ev'.op \in {"handleMapClick", "onClick"}
       /\ ev'.op = "onClick" => LayerProps.onStateChange
       /\ ev'.coordinate # null)
      => /\ rendered.mode = FIRST_POINT =>
              /\ editorState'.firstPoint = CoordinatePoint(ev'.coordinate)
              /\ editorState'.mode = SECOND_POINT
              /\ orbitAreas' = orbitAreas
         /\ rendered.mode = SECOND_POINT =>
              /\ editorState'.secondPoint = CoordinatePoint(ev'.coordinate)
              /\ editorState'.mode = WIDTH_SELECTION
              /\ editorState'.firstPoint = rendered.firstPoint
              /\ orbitAreas' = orbitAreas ]_vars

\* handleMapClick has stored a second point that differs from the first
C12_Witness ==
  /\ ev.op = "handleMapClick"
  /\ ev.coordinate # null
  /\ rendered.mode = SECOND_POINT
  /\ editorState.mode = WIDTH_SELECTION
  /\ editorState.secondPoint = CoordinatePoint(ev.coordinate)
  /\ editorState.firstPoint # undefined
  /\ editorState.firstPoint # editorState.secondPoint

C14_WidthPositive ==
  \A i \in 1..Len(orbitAreas) : orbitAreas[i].width > 0

\* what the classifier returned for a relative bearing
Classified(relativeBearing) ==
  /\ calc.op = "determineAlignmentFromMousePosition"
  /\ calc.done
  /\ calc.output.relativeBearing = relativeBearing

\* C15: for every relative angle in [0,360) the scan over ALIGNMENT_QUADRANTS
\* returns from a quadrant, never from the default after the loop, so the
\* classifier returns one alignment; and every such angle is accepted by the
\* test of at least one quadrant (no gaps).
C15_ClassifierTotal ==
  (calc.op = "determineAlignmentFromMousePosition" /\ calc.done) =>
    /\ calc.output.relativeBearing \in 0..359
    /\ calc.output.quadrant # "DEFAULT"
    /\ calc.output.quadrant \in
         {ALIGNMENT_QUADRANTS[i].name : i \in 1..Len(ALIGNMENT_QUADRANTS)}
    /\ calc.output.alignment \in OrbitAreaAlignmentEnum
    /\ \E i \in 1..Len(ALIGNMENT_QUADRANTS) :
         QuadrantMatches(ALIGNMENT_QUADRANTS[i], calc.output.relativeBearing)

\* a relative bearing on the boundary 45 was classified, from a main bearing
\* larger than the mouse bearing
C15_Witness ==
  /\ Classified(45)
  /\ calc.input[1] > calc.input[2]
  /\ calc.output.quadrant = "CENTER_FORWARD"

\* C16: the bounds of the quadrants are inclusive at both ends, and a relative
\* angle on a shared boundary is classified by the quadrant that comes first
\* in the scan order CENTER_FORWARD, RIGHT, CENTER_BACKWARD, LEFT: 45 gives
\* CENTRE, 135 gives RIGHT, 225 gives CENTRE, 315 gives CENTRE.
C16_BoundaryTieBreak ==
  /\ Classified(45) =>
       /\ calc.output.quadrant = "CENTER_FORWARD" /\ calc.output.alignment = CENTRE
       /\ QuadrantMatches(ALIGNMENT_QUADRANTS[1], 45)
       /\ QuadrantMatches(ALIGNMENT_QUADRANTS[2], 45)
  /\ Classified(135) =>
       /\ calc.output.quadrant = "RIGHT" /\ calc.output.alignment = RIGHT
       /\ QuadrantMatches(ALIGNMENT_QUADRANTS[2], 135)
       /\ QuadrantMatches(ALIGNMENT_QUADRANTS[3], 135)
  /\ Classified(225) =>
       /\ calc.output.quadrant = "CENTER_BACKWARD" /\ calc.output.alignment = CENTRE
       /\ QuadrantMatches(ALIGNMENT_QUADRANTS[3], 225)
       /\ QuadrantMatches(ALIGNMENT_QUADRANTS[4], 225)
  /\ Classified(315) =>
       /\ calc.output.quadrant = "CENTER_FORWARD" /\ calc.output.alignment = CENTRE
       /\ QuadrantMatches(ALIGNMENT_QUADRANTS[4], 315)
       /\ QuadrantMatches(ALIGNMENT_QUADRANTS[1], 315)

\* the boundary 315, which both LEFT and CENTER_FORWARD accept, was classified
C16_Witness ==
  /\ Classified(315)
  /\ calc.input[1] # 0
  /\ calc.output.alignment = CENTRE

\* C17: for every main bearing m and mouse bearing q the alignment depends
\* only on relative = (q - m) mod 360: strictly between 45 and 135 it is
\* RIGHT, strictly between 225 and 315 it is LEFT, strictly inside the
\* forward arc (315..360, 0..45) or the backward arc (135..225) it is CENTRE;
\* with the axis due north a mouse due east is RIGHT, due west LEFT, due
\* north or south CENTRE.
C17_RelativeBearingDecides ==
  (calc.op = "determineAlignmentFromMousePosition" /\ calc.done) =>
    LET m == calc.input[1]
        q == calc.input[2]
        relative == (q - m) % 360
        alignment == calc.output.alignment
    IN  /\ calc.output.relativeBearing = relative
        /\ (45 < relative /\ relative < 135) => alignment = RIGHT
        /\ (225 < relative /\ relative < 315) => alignment = LEFT
        /\ (relative < 45 \/ relative > 315) => alignment = CENTRE
        /\ (135 < relative /\ relative < 225) => alignment = CENTRE
        /\ (m = 0 /\ q = 90) => alignment = RIGHT
        /\ (m = 0 /\ q = 270) => alignment = LEFT
        /\ (m = 0 /\ q \in {0, 180}) => alignment = CENTRE

\* a mouse bearing smaller than the main bearing was classified LEFT
C17_Witness ==
  /\ calc.op = "determineAlignmentFromMousePosition"
  /\ calc.done
  /\ calc.input = <<300, 200>>
  /\ calc.output.alignment = LEFT

\* C18: normalizeAngle(x) lies in [0,360) for every x, negative x included,
\* and normalizeAngle(x) = normalizeAngle(x + 360 k) for every integer k.
C18_NormalizeAngleRange ==
  (calc.op = "normalizeAngle" /\ calc.done) =>
    /\ 0 <= calc.output /\ calc.output < 360
    /\ \A k \in (0 - MaxTurns)..MaxTurns :
         normalizeAngle(calc.input[1] + 360 * k) = calc.output

\* normalizeAngle was called with a negative angle beyond one turn
C18_Witness ==
  /\ calc.op = "normalizeAngle"
  /\ calc.done
  /\ calc.input[1] = 0 - 450
  /\ calc.output = 270

\* generateOrbitAreaPolygon has returned
Generated == calc.op = "generateOrbitAreaPolygon" /\ calc.done

\* C19: for every input generateOrbitAreaPolygon returns a ring whose last
\* point equals its first point and whose length is 2 x (segments + 1) + 1 =
\* 43, whatever the width and the distance between the points.
C19_PolygonClosed ==
  Generated =>
    /\ Len(calc.output) = 2 * (segments + 1) + 1
    /\ Len(calc.output) = 43
    /\ calc.output[Len(calc.output)] = calc.output[1]

\* a ring of width 200 km around two different points, offset to the left
C19_Witness ==
  /\ Generated
  /\ calc.input[1] # calc.input[2]
  /\ calc.input[3] = 2000000
  /\ calc.input[4] = LEFT
  /\ Len(calc.output) = 43
  /\ calc.output[2] # calc.output[1]

\* C20: the ring is built around (firstPoint, secondPoint) for CENTRE and
\* around both points moved by width/2 along bearing - 90 for LEFT, along
\* bearing + 90 for RIGHT, so that a straight edge lies on the axis: for LEFT
\* the ring's first point is firstPoint and the last point of the second cap
\* is secondPoint; for RIGHT the last point of the first cap is firstPoint
\* and the first point of the second cap is secondPoint.
C20_EdgeOnAxis ==
  Generated =>
    LET firstPoint == calc.input[1]
        secondPoint == calc.input[2]
        ring == calc.output
    IN  /\ calc.input[4] = LEFT =>
             /\ ring[1] = firstPoint
             /\ ring[2 * (segments + 1)] = secondPoint
        /\ calc.input[4] = RIGHT =>
             /\ ring[segments + 1] = firstPoint
             /\ ring[segments + 2] = secondPoint

\* the direction of the axis from firstPoint to secondPoint as (east, north),
\* about 100 long; coincident points have bearing 0, due north
AxisDirection(firstPoint, secondPoint) ==
  IF firstPoint = secondPoint THEN <<0, 100>>
  ELSE << (secondPoint.longitude - firstPoint.longitude) \div 200000,
          (secondPoint.latitude - firstPoint.latitude) \div 200000 >>

\* on which side of the axis through origin the point lies, facing from the
\* first to the second point: positive on the left, negative on the right,
\* in size about 100 times the distance from the axis in millionths of a degree
Side(point, origin, direction) ==
  direction[1] * (point.latitude - origin.latitude)
    - direction[2] * (point.longitude - origin.longitude)

\* the side of the k-th ring point, taken from the axis point its cap is
\* built at
RingSide(ring, k, firstPoint, secondPoint) ==
  Side(ring[k],
       IF k \in (segments + 2)..(2 * (segments + 1)) THEN secondPoint ELSE firstPoint,
       AxisDirection(firstPoint, secondPoint))

\* what counts as on the axis: 1% of the width (1 m is about 9 millionths of
\* a degree), in the unit of Side
OnAxisTolerance(width) == 100 * (((width \div 10) * 9) \div 100)

\* C21: alignment sides as the README states them: with CENTRE the axis
\* passes through both points and the ring is symmetric about it (the two
\* ends of each cap lie on opposite sides, equally far); with LEFT every
\* point of the ring is on the axis or to its right, facing from the first to
\* the second point; with RIGHT every point is on the axis or to its left.
C21_SidesAsReadme ==
  Generated =>
    LET firstPoint == calc.input[1]
        secondPoint == calc.input[2]
        width == calc.input[3]
        ring == calc.output
        side(k) == RingSide(ring, k, firstPoint, secondPoint)
        tolerance == OnAxisTolerance(width)
    IN  /\ calc.input[4] = CENTRE =>
             /\ side(1) + side(segments + 1) <= tolerance
             /\ side(1) + side(segments + 1) >= 0 - tolerance
             /\ width > 0 => side(1) < 0 /\ side(segments + 1) > 0
        /\ calc.input[4] = LEFT =>
             \A k \in 1..Len(ring) : side(k) <= tolerance
        /\ calc.input[4] = RIGHT =>
             \A k \in 1..Len(ring) : side(k) >= 0 - tolerance

\* the centre of the ring for coincident points: the first centerline point
RingCentre ==
  centerline(calc.input[1], calc.input[2],
             calculateBearing(calc.input[1], calc.input[2]),
             calc.input[3] \div 2, calc.input[4])[1]

\* the bearings from the centre to the first n points of the ring
RingBearings(n) == [k \in 1..n |-> calculateBearing(RingCentre, calc.output[k])]

\* C22: when firstPoint equals secondPoint, generateOrbitAreaPolygon returns
\* a ring (it does not fail) that is a full circle of radius width/2 around
\* the single centerline point: both caps are centred on the same point,
\* every ring point is at distance width/2 from it (to within 0.5%), and the
\* bearings of the ring points go round the whole circle in equal steps of
\* 9 degrees, the point where one cap ends and the next begins being
\* repeated; with width 0 the circle is the centre itself.
C22_DegenerateCircle ==
  (Generated /\ calc.input[1] = calc.input[2]) =>
    LET radius == calc.input[3] \div 2
        line == centerline(calc.input[1], calc.input[2],
                           calculateBearing(calc.input[1], calc.input[2]),
                           radius, calc.input[4])
        ring == calc.output
        bearings == RingBearings(Len(ring))
        turned(k) == (bearings[k + 1] - bearings[k]) % 360
    IN  /\ Len(ring) = 2 * (segments + 1) + 1
        /\ line[1] = line[2]
        /\ \A k \in 1..Len(ring) :
             LET distance == calculateDistance(line[1], ring[k]) IN
               /\ (distance - radius) * 200 <= radius
               /\ (radius - distance) * 200 <= radius
        /\ radius = 0 => \A k \in 1..Len(ring) : ring[k] = line[1]
        /\ radius > 0 =>
             /\ {bearings[k] : k \in 1..Len(ring)}
                  = {9 * j : j \in 0..(2 * segments - 1)}
             /\ \A k \in 1..(Len(ring) - 1) :
                  turned(k) = IF k \in {segments + 1, 2 * (segments + 1)} THEN 0 ELSE 9

\* a circle of radius 100 km around the point 100 km west of (20 E, 10 N)
C22_Witness ==
  /\ Generated
  /\ calc.input[1] = calc.input[2]
  /\ calc.input[1].latitude # 0
  /\ calc.input[3] = 2000000
  /\ calc.input[4] = LEFT
  /\ RingCentre # calc.input[1]
  /\ calculateDistance(RingCentre, calc.output[1]) = 1001120
  /\ RingBearings(3) = <<90, 99, 108>>

\* how far apart two bearings are, in degrees round the circle
BearingGap(bearing1, bearing2) ==
  LET gap == (bearing1 - bearing2) % 360 IN IF gap > 180 THEN 360 - gap ELSE gap

\* C23: for every origin, bearing b in [0,360) and distance d > 0,
\* calculateDistance(origin, calculateDestinationPoint(origin, b, d)) is
\* within 0.5% of d and calculateBearing(origin,
\* calculateDestinationPoint(origin, b, d)) is within 1 degree of b.
C23_RoundTrip ==
  (calc.op = "calculateDestinationPoint" /\ calc.done) =>
    LET b == calc.input[2]
        d == calc.input[3]
    IN  /\ calc.output.distance - d <= d \div 200
        /\ d - calc.output.distance <= d \div 200
        /\ BearingGap(calc.output.bearing, b) <= 1

\* C24: for every axis bearing b in [0,360) the first cap is 21 points at
\* bearings normalizeAngle(b + 90 + 9i), i = 0..20 (it starts at b + 90,
\* passes through b + 180 and ends at b - 90) and the second cap is 21 points
\* at normalizeAngle(b - 90 + 9i) (it starts at b - 90, passes through b and
\* ends at b + 90); the step is +9 degrees in both caps, also for the
\* bearings where start > end and 360 is added to the end angle, so both caps
\* turn the same way.
C24_CapSweeps ==
  (calc.op = "generateOrbitAreaPolygon (angles)" /\ calc.done) =>
    LET b == calc.input[1]
        first == calc.output.first
        second == calc.output.second
    IN  /\ calc.output.angleStep = 9
        /\ Len(first) = 21 /\ Len(second) = 21
        /\ \A i \in 0..20 :
             /\ first[i + 1] = (b + 90 + 9 * i) % 360
             /\ second[i + 1] = (b - 90 + 9 * i) % 360
        /\ first[1] = (b + 90) % 360
        /\ first[11] = (b + 180) % 360
        /\ first[21] = (b - 90) % 360
        /\ second[1] = (b - 90) % 360
        /\ second[11] = b
        /\ second[21] = (b + 90) % 360
        /\ \A k \in 1..20 :
             /\ (first[k + 1] - first[k]) % 360 = 9
             /\ (second[k + 1] - second[k]) % 360 = 9

\* the angles for an axis bearing whose start angle (290) is larger than its
\* end angle (110)
C24_Witness ==
  /\ calc.op = "generateOrbitAreaPolygon (angles)"
  /\ calc.done
  /\ calc.input[1] = 200
  /\ normalizeAngle(calc.input[1] + 90) > normalizeAngle(calc.input[1] - 90)
  /\ calc.output.first[1] = 290
  /\ calc.output.first[21] = 110
  /\ calc.output.second[1] = 110

\* C25: a hover handled while the mode is INACTIVE or FIRST_POINT, for which
\* the transition table defines no hover transition, leaves the EditorState
\* unchanged - in handleMouseMove and in the layer's onHover; in particular
\* the mouse position stays cleared while the mode is INACTIVE.
C25_HoverOutOfSequenceNoOp ==
  [][ (/\ ev'.op \in {"handleMouseMove", "onHover"}
       /\ rendered.mode \in {INACTIVE, FIRST_POINT})
      => /\ UNCHANGED editorState
         /\ (rendered.mode = INACTIVE /\ editorState.mousePosition = undefined)
              => editorState'.mousePosition = undefined ]_vars

\* the points a mode goes with
ModePoints(state) ==
  /\ state.mode \in {INACTIVE, FIRST_POINT} =>
       state.firstPoint = undefined /\ state.secondPoint = undefined
  /\ state.mode = SECOND_POINT =>
       state.firstPoint # undefined /\ state.secondPoint = undefined
  /\ state.mode = WIDTH_SELECTION =>
       state.firstPoint # undefined /\ state.secondPoint # undefined

\* C26: after any sequence of startEditing, cancelEditing, handleMapClick and
\* handleMouseMove calls (and of the layer's handlers) the editing state - the
\* value last set and the one the handlers were built with - has mode INACTIVE
\* or FIRST_POINT with firstPoint and secondPoint undefined, SECOND_POINT with
\* firstPoint defined and secondPoint undefined, or WIDTH_SELECTION with both
\* defined.
C26_ModePointsInvariant ==
  /\ editorState.mode \in EditorMode
  /\ ModePoints(editorState)
  /\ ModePoints(rendered)

\* the hook has reached WIDTH_SELECTION by two clicks, and a hover
C26_Witness ==
  /\ wiring = "hook"
  /\ ev.op = "handleMouseMove"
  /\ ev.coordinate # null
  /\ editorState.mode = WIDTH_SELECTION
  /\ bothPointsSet(editorState)
  /\ editorState.mousePosition # undefined

\* the next mode along the workflow
NextMode(mode) ==
  CASE mode = INACTIVE -> FIRST_POINT
    [] mode = FIRST_POINT -> SECOND_POINT
    [] mode = SECOND_POINT -> WIDTH_SELECTION
    [] mode = WIDTH_SELECTION -> INACTIVE

StartOps == {"startEditing"}
CancelOps == {"cancelEditing", "handleKeyDown"}
ClickOps == {"handleMapClick", "onClick", "handleCanvasClick"}
HoverOps == {"handleMouseMove", "onHover", "handleCanvasMouseMove"}

\* C27: the mode only moves along the workflow: every step leaves it
\* unchanged, or advances it by one along INACTIVE -> FIRST_POINT ->
\* SECOND_POINT -> WIDTH_SELECTION -> INACTIVE (from INACTIVE by start, from
\* the other modes by a click), or returns it to INACTIVE by cancel; no hover
\* changes the mode, no click skips a step or moves backwards, and once
\* INACTIVE the mode stays INACTIVE until the next startEditing().
C27_ModeAlongWorkflow ==
  [][ /\ \/ editorState'.mode = editorState.mode
         \/ /\ editorState'.mode = NextMode(editorState.mode)
            /\ IF editorState.mode = INACTIVE
                 THEN ev'.op \in StartOps
                 ELSE ev'.op \in ClickOps
         \/ /\ editorState'.mode = INACTIVE
            /\ ev'.op \in CancelOps
      /\ ev'.op \in HoverOps => editorState'.mode = editorState.mode ]_vars

\* C28: the alignment of an emitted OrbitArea depends only on the current
\* editing session: it is the classification of the last hover handled in
\* WIDTH_SELECTION of that session, against the emitted points, or CENTRE
\* when the session had no such hover; an alignment from an earlier session,
\* or from a hover made before the second point was placed, does not reach
\* the emitted OrbitArea.
C28_AlignmentOfSession ==
  [][ Len(orbitAreas') > Len(orbitAreas) =>
        LET area == orbitAreas'[Len(orbitAreas')] IN
          area.alignment =
            IF widthHover = undefined THEN CENTRE
            ELSE determineAlignmentFromMousePosition(
                   area.first_point, area.second_point, widthHover) ]_vars

\* the classifier's answer for the mouse bearing mirrored about the axis of
\* the call made: the relative angle r becomes normalizeAngle(360 - r)
MirrorAlignment ==
  LET mainBearing == calc.input[1]
      mouseBearing == calc.input[2]
  IN  classifyBearings(mainBearing,
                       normalizeAngle(2 * mainBearing - mouseBearing)).alignment

\* C29 as stated: the classifier is mirror-symmetric about the axis for every
\* relative angle r in [0,360): r is RIGHT exactly when normalizeAngle(360 - r)
\* is LEFT, and r is CENTRE exactly when its mirror image is CENTRE, the
\* boundary angles 45/315 and 135/225 included.
C29_MirrorSymmetric ==
  (calc.op = "determineAlignmentFromMousePosition" /\ calc.done) =>
    /\ calc.output.alignment = RIGHT <=> MirrorAlignment = LEFT
    /\ calc.output.alignment = CENTRE <=> MirrorAlignment = CENTRE

\* C29, amended: the classifier is mirror-symmetric about the axis for every
\* relative angle r in [0,360) but the pair 135/225: r is RIGHT exactly when
\* normalizeAngle(360 - r) is LEFT, LEFT exactly when it is RIGHT and CENTRE
\* exactly when it is CENTRE, the boundary pair 45/315 included (both CENTRE);
\* 135 is RIGHT while its mirror image 225 is CENTRE.
C29_MirrorButBackBoundary ==
  (calc.op = "determineAlignmentFromMousePosition" /\ calc.done) =>
    LET r == (calc.input[2] - calc.input[1]) % 360
        mirror == classifyBearings(0, normalizeAngle(360 - r))
    IN  /\ mirror.alignment = MirrorAlignment
        /\ mirror.relativeBearing = (360 - r) % 360
        /\ r \notin {135, 225} =>
             /\ calc.output.alignment = RIGHT <=> MirrorAlignment = LEFT
             /\ calc.output.alignment = LEFT <=> MirrorAlignment = RIGHT
             /\ calc.output.alignment = CENTRE <=> MirrorAlignment = CENTRE
        /\ r \in {45, 315} =>
             calc.output.alignment = CENTRE /\ MirrorAlignment = CENTRE
        /\ r = 135 => calc.output.alignment = RIGHT /\ MirrorAlignment = CENTRE
        /\ r = 225 => calc.output.alignment = CENTRE /\ MirrorAlignment = RIGHT

\* the boundary 135 was classified RIGHT, from a mouse bearing past north,
\* and its mirror image is not LEFT
C29_Witness ==
  /\ Classified(135)
  /\ calc.input[1] > calc.input[2]
  /\ calc.output.alignment = RIGHT
  /\ MirrorAlignment # LEFT

\* C30 as stated: what is previewed is what is committed: when the
\* finalizing click in WIDTH_SELECTION is at the position of the last hover
\* handled, the emitted
\* OrbitArea has exactly the width, alignment and points that renderLayers
\* passed to generateOrbitAreaPolygon for the preview in the state just
\* before the click.
C30_PreviewCommittedAlways ==
  [][ ( /\ Len(orbitAreas') > Len(orbitAreas)
        /\ ev'.op = "onClick"
        /\ widthHover # undefined
        /\ ev'.coordinate = <<widthHover.longitude, widthHover.latitude>> ) =>
        LET area == orbitAreas'[Len(orbitAreas')] IN
          /\ preview # undefined
          /\ preview = [firstPoint |-> area.first_point,
                        secondPoint |-> area.second_point,
                        width |-> area.width,
                        alignment |-> area.alignment]
          /\ area.width = 2 * calculateDistance(area.second_point, widthHover) ]_vars

\* C30, amended: when the finalizing click in WIDTH_SELECTION is at the
\* position p of the last hover handled, the emitted OrbitArea has the points
\* of the state the click was handled in and the width 2 x distance(
\* secondPoint, p); and when that hover had been rendered before the click,
\* the emitted width, alignment and points are exactly what renderLayers
\* passed to generateOrbitAreaPolygon for the preview.
C30_PreviewCommittedOnceRendered ==
  [][ ( /\ Len(orbitAreas') > Len(orbitAreas)
        /\ ev'.op = "onClick"
        /\ widthHover # undefined
        /\ ev'.coordinate = <<widthHover.longitude, widthHover.latitude>> ) =>
        LET area == orbitAreas'[Len(orbitAreas')] IN
          /\ area.first_point = rendered.firstPoint
          /\ area.second_point = rendered.secondPoint
          /\ area.width = 2 * calculateDistance(area.second_point, widthHover)
          /\ rendered = editorState =>
               /\ preview # undefined
               /\ preview = [firstPoint |-> area.first_point,
                             secondPoint |-> area.second_point,
                             width |-> area.width,
                             alignment |-> area.alignment] ]_vars

\* a click on the position of a rendered hover has committed the previewed
\* OrbitArea: offset to the left, as wide as twice the distance to the click
C30_Witness ==
  /\ Len(orbitAreas) > 0
  /\ ev.op = "onClick"
  /\ ev.coordinate # null
  /\ preview # undefined
  /\ preview.alignment = LEFT
  /\ preview.width > 0
  /\ preview.width =
       2 * calculateDistance(preview.secondPoint,
                             Point(ev.coordinate[1], ev.coordinate[2]))
  /\ orbitAreas[Len(orbitAreas)] =
       [first_point |-> preview.firstPoint,
        second_point |-> preview.secondPoint,
        width |-> preview.width,
        alignment |-> preview.alignment]

====
